---- MODULE Spec2Model ----
(***************************************************************************)
(* Model of the forecast training-and-serving pipeline of siprems-cd:      *)
(* ModelTrainer (backend/model_trainer.py), the training and prediction    *)
(* endpoints (backend/main.py) and RetrainingScheduler                     *)
(* (backend/scheduler.py).                                                 *)
(*                                                                         *)
(* Time is counted in whole days.  Two actions that happen at the same     *)
(* clock value see the same %Y%m%d_%H%M%S string, as two saves within one  *)
(* second do.                                                              *)
(***************************************************************************)
EXTENDS Integers, Sequences, FiniteSets, TLC

VARIABLES
    now,          \* get_current_time_wib(), in days
    modelFile,    \* {model_dir}/store_{id}.json, per store
    metaFile,     \* {model_dir}/store_{id}_meta.json, per store
    history,      \* the files of {model_dir}/history
    proc,         \* the request threads and the scheduler thread
    nextRun,      \* number of fits performed so far (identifies an artifact)
    faults,       \* number of I/O failures and crashes so far
    window,       \* the frame validate_data_quality is handed
    quality,      \* how far train_model got on that frame
    sched,        \* the RetrainingScheduler object
    pred,         \* one call of get_prediction
    calc          \* one call of a function of the pipeline: arguments, result

\* the variables an action on the model directory leaves alone
aside == <<window, quality, sched, pred, calc>>
\* the model directory and its threads
files == <<now, modelFile, metaFile, history, proc, nextRun, faults>>

----------------------------------------------------------------------------
(* Program constants (backend/config.py) *)

MAX_MODEL_AGE_DAYS == 7
KEEP_MODEL_HISTORY == 5
\* accuracies are kept in tenths of a percent: 82.0 is 820
MIN_ACCURACY_THRESHOLD == 820
\* should_retrain: data older than this many days is stale
DATA_STALE_DAYS == 3
MIN_TRAINING_DAYS == 30
\* MIN_NON_ZERO_DAYS_RATIO = 0.7 and MAX_OUTLIER_RATIO = 0.05, in percent
MIN_NON_ZERO_DAYS_PERCENT == 70
MAX_OUTLIER_PERCENT == 5
\* OUTLIER_Z_SCORE_THRESHOLD = 3.5, in tenths
OUTLIER_Z_SCORE_TENTHS == 35
\* _get_model_age_days: the age reported when saved_at cannot be parsed
UNKNOWN_AGE == 999

----------------------------------------------------------------------------
(* Bounds *)

\* threads sharing the model directory
MaxNowConcurrent == 1
MaxRunsConcurrent == 2
MaxFaultsConcurrent == 1
\* one request at a time
MaxNowSequential == 1
MaxRunsSequential == 3
MaxFaultsSequential == 1
\* one request at a time, long enough to fill the history directory
MaxNowRetention == 5
MaxRunsRetention == 7
MaxFaultsRetention == 1

Stores == {"1", "2"}
\* startup_event registers the scheduled job for store "1" only; the manual
\* retrain endpoint triggers store "1" only
ScheduledStores == {"1"}
Procs == {"req", "sched"}

\* accuracies a training run may compute (tenths of a percent); 0 is what
\* _calculate_accuracy_detailed returns without a validation split
TrainedAccuracies == {0, 900}

----------------------------------------------------------------------------
(* Files *)

NoFile == [kind |-> "none", run |-> 0, saved_at |-> 0, accuracy |-> 0,
           end_date |-> 0, fields |-> {}]
TornFile == [kind |-> "torn", run |-> 0, saved_at |-> 0, accuracy |-> 0,
             end_date |-> 0, fields |-> {}]

\* the artifact written by model_to_json for the model fitted by run r
ArtifactOf(r) == [kind |-> "data", run |-> r, saved_at |-> 0, accuracy |-> 0,
                  end_date |-> 0, fields |-> {}]

\* the metadata dict train_model builds
TrainerMeta(r, t, acc, last) ==
    [kind |-> "data", run |-> r, saved_at |-> t, accuracy |-> acc,
     end_date |-> last,
     fields |-> {"log_transform", "saved_at", "accuracy", "end_date"}]

\* the metadata dict legacy_train_model hands to save_model_with_meta, which
\* adds saved_at: no accuracy, no end_date
LegacyMeta(r, t) ==
    [kind |-> "data", run |-> r, saved_at |-> t, accuracy |-> 0,
     end_date |-> 0, fields |-> {"log_transform", "saved_at"}]

\* os.path.exists
Exists(f) == f.kind # "none"

\* what load_model hands back when the metadata file is missing or unreadable
DefaultMeta == [kind |-> "default", run |-> 0, saved_at |-> 0, accuracy |-> 0,
                end_date |-> 0, fields |-> {"log_transform"}]
NoneValue == [kind |-> "None", run |-> 0, saved_at |-> 0, accuracy |-> 0,
              end_date |-> 0, fields |-> {}]

\* load_model, first half: the artifact is read and parsed
LoadArtifact(f) == IF f.kind = "data" THEN f ELSE NoneValue

\* load_model, second half: the metadata is read, defaults filled in
LoadMetadata(f) ==
    IF f.kind = "data"
    THEN [f EXCEPT !.fields = f.fields \cup {"log_transform"}]
    ELSE DefaultMeta

\* load_model as a whole, on an unchanging directory
LoadPair(mf, mt, s) ==
    IF LoadArtifact(mf[s]) = NoneValue
    THEN <<NoneValue, NoneValue>>
    ELSE <<LoadArtifact(mf[s]), LoadMetadata(mt[s])>>

LoadModel(s) == LoadPair(modelFile, metaFile, s)

----------------------------------------------------------------------------
(* The retrain decision *)

_get_model_age_days(meta, t) ==
    IF "saved_at" \in meta.fields THEN t - meta.saved_at ELSE UNKNOWN_AGE

\* should_retrain with the age compared by > instead of >=
should_retrain_age_strict(model, meta, t) ==
    IF model = NoneValue \/ meta = NoneValue
    THEN <<"true", "no_model">>
    ELSE IF _get_model_age_days(meta, t) > MAX_MODEL_AGE_DAYS
    THEN <<"true", "age">>
    ELSE IF (IF "accuracy" \in meta.fields THEN meta.accuracy ELSE 0)
                < MIN_ACCURACY_THRESHOLD
    THEN <<"true", "accuracy">>
    ELSE IF "end_date" \notin meta.fields
    THEN <<"raise", "ValueError">>
    ELSE IF t - meta.end_date > DATA_STALE_DAYS
    THEN <<"true", "data_age">>
    ELSE <<"false", "up_to_date">>

\* should_retrain: <<decision, reason>>; the decision is "raise" when
\* datetime.fromisoformat is handed the empty default of a missing end_date
should_retrain(model, meta, t) ==
    IF model = NoneValue \/ meta = NoneValue
    THEN <<"true", "no_model">>
    ELSE IF _get_model_age_days(meta, t) >= MAX_MODEL_AGE_DAYS
    THEN <<"true", "age">>
    ELSE IF (IF "accuracy" \in meta.fields THEN meta.accuracy ELSE 0)
                < MIN_ACCURACY_THRESHOLD
    THEN <<"true", "accuracy">>
    ELSE IF "end_date" \notin meta.fields
    THEN <<"raise", "ValueError">>
    ELSE IF t - meta.end_date > DATA_STALE_DAYS
    THEN <<"true", "data_age">>
    ELSE <<"false", "up_to_date">>

\* the skip of train_model with the age compared to DATA_STALE_DAYS
UsesExistingModel_stale_days(force, model, meta, t) ==
    /\ ~force
    /\ model # NoneValue
    /\ meta # NoneValue
    /\ _get_model_age_days(meta, t) < DATA_STALE_DAYS

\* the skip of train_model with the age compared to KEEP_MODEL_HISTORY
UsesExistingModel_wrong_constant(force, model, meta, t) ==
    /\ ~force
    /\ model # NoneValue
    /\ meta # NoneValue
    /\ _get_model_age_days(meta, t) < KEEP_MODEL_HISTORY

\* train_model, lines 341-347: TRUE when the existing pair is returned
UsesExistingModel(force, model, meta, t) ==
    /\ ~force
    /\ model # NoneValue
    /\ meta # NoneValue
    /\ _get_model_age_days(meta, t) < MAX_MODEL_AGE_DAYS

----------------------------------------------------------------------------
(* Threads *)

Entries == {"train", "check", "sched", "manual"}

IdleProc ==
    [pc |-> "idle", store |-> "1", entry |-> "train", force |-> FALSE,
     model |-> NoneValue, meta |-> NoneValue, newModel |-> NoneValue,
     newMeta |-> NoneValue, archTs |-> 0, error |-> "none",
     outcome |-> "none", pre |-> <<NoneValue, NoneValue>>,
     retrain |-> <<"none", "none">>]

\* the pcs at which a training run is past its data fetch and before the end
\* of its save
TrainingPcs == {"fit", "save", "arch_meta", "cleanup", "open_model",
                "write_model", "open_meta", "write_meta"}

\* what the caller of an entry point receives.  result is what
\* ModelTrainer.train_model / auto_retrain_if_needed handed back:
\* "metadata", "none" or "raised"
Response(entry, result, err) ==
    CASE entry = "train" ->
            \* main.py train_model: the three exits of the try block
            IF result = "metadata" THEN "success"
            ELSE IF err = "DataQualityError" THEN "http_400"
            ELSE "http_500"
      [] entry = "check" ->
            \* main.py check_and_retrain
            IF result = "metadata" THEN "retrained"
            ELSE IF result = "none" THEN "up_to_date"
            ELSE "http_500"
      [] entry = "sched" ->
            \* scheduler.py _retrain_job: every exit is a log line
            IF result = "metadata" THEN "job_completed"
            ELSE IF result = "none" THEN "job_not_needed"
            ELSE "job_failed"
      [] OTHER ->
            \* main.py daily_retrain: _retrain_job never raises, the
            \* endpoint answers {"status": "success",
            \* "message": "Manual retraining triggered"}
            "triggered"

\* the entry point returns to its caller; its locals are gone
Return(p, result, err) ==
    proc' = [proc EXCEPT ![p] =
               [IdleProc EXCEPT
                  !.error = err,
                  !.outcome = Response(proc[p].entry, result, err)]]

\* an exception leaves ModelTrainer.train_model.  The endpoint train_model
\* lets it reach its except clauses; auto_retrain_if_needed catches it and
\* returns None
Raise(p, err) ==
    IF proc[p].entry = "train"
    THEN Return(p, "raised", err)
    ELSE Return(p, "none", err)

\* a request arrives, or the cron trigger fires
Begin(p, s, e, f) ==
    /\ proc[p].pc = "idle"
    /\ (p = "sched") = (e = "sched")
    /\ e \in {"sched", "manual"} => s \in ScheduledStores
    /\ e # "train" => ~f
    /\ proc' = [proc EXCEPT ![p] =
                 [IdleProc EXCEPT
                    !.store = s, !.entry = e, !.force = f,
                    !.pre = LoadModel(s),
                    \* train_model(force_retrain=True) goes straight to the
                    \* fetch; every other call starts with load_model
                    !.pc = IF e = "train" /\ f THEN "fetch" ELSE "load"]]
    /\ UNCHANGED <<aside, now, modelFile, metaFile, history, nextRun, faults>>

\* after load_model: the skip of train_model, or should_retrain inside
\* auto_retrain_if_needed
Decide(p, model, meta) ==
    IF proc[p].entry = "train"
    THEN IF UsesExistingModel(proc[p].force, model, meta, now)
         THEN \* the loaded pair is what the caller gets
              proc' = [proc EXCEPT ![p] =
                         [IdleProc EXCEPT !.model = model, !.meta = meta,
                                          !.outcome = "success"]]
         ELSE proc' = [proc EXCEPT ![p].model = model, ![p].meta = meta,
                                   ![p].pc = "fetch"]
    ELSE LET d == should_retrain(model, meta, now) IN
         IF d[1] = "true"
         THEN proc' = [proc EXCEPT ![p].model = model, ![p].meta = meta,
                                   ![p].retrain = d,
                                   ![p].pc = "fetch"]
         ELSE proc' = [proc EXCEPT ![p] =
                 [IdleProc EXCEPT
                    !.retrain = d,
                    !.error = IF d[1] = "raise" THEN "ValueError" ELSE "none",
                    !.outcome = Response(proc[p].entry,
                                  IF d[1] = "raise" THEN "raised" ELSE "none",
                                  "none")]]

\* load_model reads the artifact
ReadModel(p) ==
    /\ proc[p].pc = "load"
    /\ LET m == LoadArtifact(modelFile[proc[p].store]) IN
         IF m = NoneValue
         THEN Decide(p, NoneValue, NoneValue)
         ELSE proc' = [proc EXCEPT ![p].model = m, ![p].pc = "load_meta"]
    /\ UNCHANGED <<aside, now, modelFile, metaFile, history, nextRun, faults>>

\* load_model reads the metadata
ReadMeta(p) ==
    /\ proc[p].pc = "load_meta"
    /\ Decide(p, proc[p].model, LoadMetadata(metaFile[proc[p].store]))
    /\ UNCHANGED <<aside, now, modelFile, metaFile, history, nextRun, faults>>

\* fetch_training_data and validate_data_quality
Fetch(p) ==
    /\ proc[p].pc = "fetch"
    /\ \E res \in {"ok", "DatabaseError", "DataQualityError"} :
         IF res = "ok"
         THEN proc' = [proc EXCEPT ![p].pc = "fit"]
         ELSE Raise(p, res)
    /\ UNCHANGED <<aside, now, modelFile, metaFile, history, nextRun, faults>>

\* preprocessing, Prophet.fit, metadata, accuracy.  The fetched window ends
\* today (fetch_training_data asks for ds <= end_date = today)
Fit(p, maxRuns, accs) ==
    /\ proc[p].pc = "fit"
    /\ \/ /\ nextRun < maxRuns
          /\ \E acc \in accs :
               proc' = [proc EXCEPT
                   ![p].pc = "save",
                   ![p].newModel = ArtifactOf(nextRun + 1),
                   ![p].newMeta = TrainerMeta(nextRun + 1, now, acc, now)]
          /\ nextRun' = nextRun + 1
       \/ /\ Raise(p, "FitError")
          /\ UNCHANGED nextRun
    /\ UNCHANGED <<aside, now, modelFile, metaFile, history, faults>>

----------------------------------------------------------------------------
(* save_model, _archive_model, _cleanup_old_history *)

\* a file of the history directory:
\*   {model_dir}/history/store_{store}_{ts}{suffix}.json
HistoryFile(s, t, suffix, content) ==
    [store |-> s, ts |-> t, suffix |-> suffix, content |-> content]

\* shutil.copy2 into the history directory: a file of the same name is
\* overwritten
CopyToHistory(h, s, t, suffix, content) ==
    {f \in h : ~(f.store = s /\ f.ts = t /\ f.suffix = suffix)}
        \cup {HistoryFile(s, t, suffix, content)}

\* glob.glob(f"{history_dir}/store_{store_id}_*_meta.json")
HistoryGlob(h, s) == {f \in h : f.store = s /\ f.suffix = "_meta"}

\* history_files[KEEP_MODEL_HISTORY:] of the list sorted in reverse
OldHistoryFiles(h, s) ==
    {f \in HistoryGlob(h, s) :
        Cardinality({g \in HistoryGlob(h, s) : g.ts > f.ts})
            >= KEEP_MODEL_HISTORY}

\* _cleanup_old_history: each old metadata file and the artifact next to it
\* are removed
CleanedHistory(h, s) ==
    {f \in h : ~(\E old \in OldHistoryFiles(h, s) :
                    f.store = old.store /\ f.ts = old.ts)}

\* save_model starts: an existing artifact is copied away under the
\* timestamp _archive_model takes first
SaveBegin(p) ==
    /\ proc[p].pc = "save"
    /\ LET s == proc[p].store IN
         IF Exists(modelFile[s])
         THEN /\ history' = CopyToHistory(history, s, now, "", modelFile[s])
              /\ proc' = [proc EXCEPT ![p].archTs = now,
                                      ![p].pc = "arch_meta"]
         ELSE /\ history' = history
              /\ proc' = [proc EXCEPT ![p].pc = "open_model"]
    /\ UNCHANGED <<aside, now, modelFile, metaFile, nextRun, faults>>

\* _archive_model copies the metadata when there is some
ArchiveMeta(p) ==
    /\ proc[p].pc = "arch_meta"
    /\ LET s == proc[p].store IN
         history' = IF Exists(metaFile[s])
                    THEN CopyToHistory(history, s, proc[p].archTs, "_meta",
                                       metaFile[s])
                    ELSE history
    /\ proc' = [proc EXCEPT ![p].pc = "cleanup"]
    /\ UNCHANGED <<aside, now, modelFile, metaFile, nextRun, faults>>

Cleanup(p) ==
    /\ proc[p].pc = "cleanup"
    /\ history' = CleanedHistory(history, proc[p].store)
    /\ proc' = [proc EXCEPT ![p].pc = "open_model"]
    /\ UNCHANGED <<aside, now, modelFile, metaFile, nextRun, faults>>

\* a copy or a removal raises: _archive_model logs a warning and save_model
\* goes on
ArchiveFails(p, maxFaults) ==
    /\ proc[p].pc \in {"arch_meta", "cleanup"}
    /\ faults < maxFaults
    /\ faults' = faults + 1
    /\ proc' = [proc EXCEPT ![p].pc = "open_model"]
    /\ UNCHANGED <<aside, now, modelFile, metaFile, history, nextRun>>

\* open(model_path, "w") truncates the artifact
OpenModel(p) ==
    /\ proc[p].pc = "open_model"
    /\ modelFile' = [modelFile EXCEPT ![proc[p].store] = TornFile]
    /\ proc' = [proc EXCEPT ![p].pc = "write_model"]
    /\ UNCHANGED <<aside, now, metaFile, history, nextRun, faults>>

\* f.write(model_to_json(model)) and the close
WriteModel(p) ==
    /\ proc[p].pc = "write_model"
    /\ modelFile' = [modelFile EXCEPT ![proc[p].store] = proc[p].newModel]
    /\ proc' = [proc EXCEPT ![p].pc = "open_meta"]
    /\ UNCHANGED <<aside, now, metaFile, history, nextRun, faults>>

\* open(meta_path, "w") truncates the metadata
OpenMeta(p) ==
    /\ proc[p].pc = "open_meta"
    /\ metaFile' = [metaFile EXCEPT ![proc[p].store] = TornFile]
    /\ proc' = [proc EXCEPT ![p].pc = "write_meta"]
    /\ UNCHANGED <<aside, now, modelFile, history, nextRun, faults>>

\* json.dump(metadata, f) and the close; train_model returns
WriteMeta(p) ==
    /\ proc[p].pc = "write_meta"
    /\ metaFile' = [metaFile EXCEPT ![proc[p].store] = proc[p].newMeta]
    /\ Return(p, "metadata", "none")
    /\ UNCHANGED <<aside, now, modelFile, history, nextRun, faults>>

\* an open or a write raises (disk full, permissions): save_model logs and
\* re-raises
SaveFails(p, maxFaults) ==
    /\ proc[p].pc \in {"open_model", "write_model", "open_meta", "write_meta"}
    /\ faults < maxFaults
    /\ faults' = faults + 1
    /\ Raise(p, "SaveError")
    /\ UNCHANGED <<aside, now, modelFile, metaFile, history, nextRun>>

\* the server process dies and is started again: the threads are gone, the
\* model directory stays
Crash(maxFaults) ==
    /\ \E p \in Procs : proc[p].pc # "idle"
    /\ faults < maxFaults
    /\ faults' = faults + 1
    /\ proc' = [p \in Procs |->
                  IF proc[p].pc = "idle" THEN proc[p]
                  ELSE [IdleProc EXCEPT !.outcome = "crashed"]]
    /\ UNCHANGED <<aside, now, modelFile, metaFile, history, nextRun>>

Tick(maxNow) ==
    /\ now < maxNow
    /\ now' = now + 1
    /\ UNCHANGED <<aside, modelFile, metaFile, history, proc, nextRun, faults>>

----------------------------------------------------------------------------
(* Specifications of the model directory *)


\* values every specification that does not use them gives the variables of
\* the other components
ParkedWindow == [v \in {} |-> 0]
ParkedQuality ==
    [pc |-> "parked", error |-> "none", total_days |-> 0, outlier_count |-> 0]
ParkedSched ==
    [is_running |-> FALSE, retrain_callback |-> "None", jobs |-> {},
     cycle |-> 0, due |-> {}, manual |-> 0,
     calls |-> [s \in Stores |-> 0],
     log |-> [s \in Stores |-> "none"],
     failed_in |-> [s \in Stores |-> 0],
     ran_in |-> [s \in Stores |-> 0]]
ParkedPred ==
    [pc |-> "parked", accuracy |-> 0, regressor_scaled |-> FALSE,
     scaler_params |-> [present |-> FALSE, columns |-> {},
                        mean_ |-> <<>>, scale_ |-> <<>>],
     future |-> <<>>, fed |-> <<>>, predict_calls |-> 0,
     response |-> "none"]

ParkedCalc == [fn |-> "parked"]

InitAside ==
    /\ window = ParkedWindow
    /\ quality = ParkedQuality
    /\ sched = ParkedSched
    /\ pred = ParkedPred
    /\ calc = ParkedCalc

InitFiles ==
    /\ now = 0
    /\ modelFile = [s \in Stores |-> NoFile]
    /\ metaFile = [s \in Stores |-> NoFile]
    /\ history = {}
    /\ proc = [p \in Procs |-> IdleProc]
    /\ nextRun = 0
    /\ faults = 0

vars == <<now, modelFile, metaFile, history, proc, nextRun, faults,
          window, quality, sched, pred, calc>>

\* request threads and the scheduler thread share the model directory
Init == InitFiles /\ InitAside

Next ==
    \/ \E p \in Procs, s \in Stores, e \in Entries, f \in BOOLEAN :
          Begin(p, s, e, f)
    \/ \E p \in Procs : ReadModel(p)
    \/ \E p \in Procs : ReadMeta(p)
    \/ \E p \in Procs : Fetch(p)
    \/ \E p \in Procs : Fit(p, MaxRunsConcurrent, {900})
    \/ \E p \in Procs : SaveBegin(p)
    \/ \E p \in Procs : ArchiveMeta(p)
    \/ \E p \in Procs : Cleanup(p)
    \/ \E p \in Procs : ArchiveFails(p, MaxFaultsConcurrent)
    \/ \E p \in Procs : OpenModel(p)
    \/ \E p \in Procs : WriteModel(p)
    \/ \E p \in Procs : OpenMeta(p)
    \/ \E p \in Procs : WriteMeta(p)
    \/ \E p \in Procs : SaveFails(p, MaxFaultsConcurrent)
    \/ Crash(MaxFaultsConcurrent)
    \/ Tick(MaxNowConcurrent)

Spec == Init /\ [][Next]_vars

\* one request at a time, no scheduler thread
InitSeq == InitFiles /\ InitAside

NextSeq ==
    \/ \E s \in Stores, e \in Entries \ {"sched"}, f \in BOOLEAN :
          Begin("req", s, e, f)
    \/ ReadModel("req")
    \/ ReadMeta("req")
    \/ Fetch("req")
    \/ Fit("req", MaxRunsSequential, TrainedAccuracies)
    \/ SaveBegin("req")
    \/ ArchiveMeta("req")
    \/ Cleanup("req")
    \/ ArchiveFails("req", MaxFaultsSequential)
    \/ OpenModel("req")
    \/ WriteModel("req")
    \/ OpenMeta("req")
    \/ WriteMeta("req")
    \/ SaveFails("req", MaxFaultsSequential)
    \/ Tick(MaxNowSequential)

SpecSeq == InitSeq /\ [][NextSeq]_vars

\* POST /api/train/1?force_retrain=true, again and again
InitRetention == InitFiles /\ InitAside

NextRetention ==
    \/ Begin("req", "1", "train", TRUE)
    \/ Fetch("req")
    \/ Fit("req", MaxRunsRetention, {900})
    \/ SaveBegin("req")
    \/ ArchiveMeta("req")
    \/ Cleanup("req")
    \/ OpenModel("req")
    \/ WriteModel("req")
    \/ OpenMeta("req")
    \/ WriteMeta("req")
    \/ SaveFails("req", MaxFaultsRetention)
    \/ Tick(MaxNowRetention)

SpecRetention == InitRetention /\ [][NextRetention]_vars

\* a request for store "1" finds a directory an earlier run of the service
\* left: nothing, an artifact alone, an artifact with torn, legacy or
\* complete metadata
DecideNows == {7, 8}
DecideSavedAts == {0, 1, 2, 4, 5, 7}
DecideLags == {0, 1}
DecideAccuracies == {0, 819, 820, 900}
MaxRunsDecide == 2

DecideMetaFiles ==
    {NoFile, TornFile}
      \cup {LegacyMeta(1, t) : t \in DecideSavedAts}
      \cup UNION {{TrainerMeta(1, t, acc, t - lag) :
                      acc \in DecideAccuracies,
                      lag \in {l \in DecideLags : l <= t}} :
                   t \in DecideSavedAts}

InitDecide ==
    /\ now \in DecideNows
    /\ \E mf \in {NoFile, TornFile, ArtifactOf(1)}, mt \in DecideMetaFiles :
         /\ mf = NoFile => mt = NoFile
         /\ modelFile = [s \in Stores |-> IF s = "1" THEN mf ELSE NoFile]
         /\ metaFile = [s \in Stores |-> IF s = "1" THEN mt ELSE NoFile]
    /\ history = {}
    /\ proc = [p \in Procs |-> IdleProc]
    /\ nextRun = 1
    /\ faults = 0
    /\ InitAside

NextDecide ==
    \/ \E e \in {"train", "check"}, f \in BOOLEAN : Begin("req", "1", e, f)
    \/ ReadModel("req")
    \/ ReadMeta("req")
    \/ Fetch("req")
    \/ Fit("req", MaxRunsDecide, {900})
    \/ SaveBegin("req")
    \/ ArchiveMeta("req")
    \/ Cleanup("req")
    \/ OpenModel("req")
    \/ WriteModel("req")
    \/ OpenMeta("req")
    \/ WriteMeta("req")

SpecDecide == InitDecide /\ [][NextDecide]_vars

----------------------------------------------------------------------------
(* Properties of the model directory *)

\* thread p finishes the load_model at the head of its call in this step
FinishesLoad(p) ==
    /\ proc[p].pc \in {"load", "load_meta"}
    /\ proc'[p].pc \notin {"load", "load_meta"}

\* what the two files of store s hold, read without load_model's defaults
StoredModelExists(s) == modelFile[s].kind = "data"
StoredSavedAtReadable(s) ==
    metaFile[s].kind = "data" /\ "saved_at" \in metaFile[s].fields
StoredAgeBelow(s, days) ==
    StoredSavedAtReadable(s) /\ now - metaFile[s].saved_at < days
StoredAccuracyOk(s) ==
    /\ metaFile[s].kind = "data"
    /\ "accuracy" \in metaFile[s].fields
    /\ metaFile[s].accuracy >= MIN_ACCURACY_THRESHOLD
StoredDataFresh(s) ==
    /\ metaFile[s].kind = "data"
    /\ "end_date" \in metaFile[s].fields
    /\ now - metaFile[s].end_date <= DATA_STALE_DAYS

\* C1: load_model never returns a model together with the metadata of
\* another model version (or with no metadata of its own): what a thread
\* holds after a load is one complete pair, whatever the other thread does
\* and wherever the process died before.
C1_LoadReturnsOnePair ==
    \A p \in Procs :
        (proc[p].model # NoneValue /\ proc[p].meta # NoneValue)
            => /\ proc[p].meta.kind = "data"
               /\ proc[p].meta.run = proc[p].model.run

\* C2: no two threads are between their data fetch and the end of their save
\* for the same store at the same time.
C2_OneTrainingRunPerStore ==
    \A p, q \in Procs :
        (p # q /\ proc[p].pc \in TrainingPcs /\ proc[q].pc \in TrainingPcs)
            => proc[p].store # proc[q].store

\* the decision the claim C3 describes, from the files
ExpectedRetrain(s) ==
    IF ~StoredModelExists(s) THEN <<"true", "no_model">>
    ELSE IF ~StoredAgeBelow(s, MAX_MODEL_AGE_DAYS) THEN <<"true", "age">>
    ELSE IF ~StoredAccuracyOk(s) THEN <<"true", "accuracy">>
    ELSE IF ~StoredDataFresh(s) THEN <<"true", "data_age">>
    ELSE <<"false", "up_to_date">>

ReturnsExistingPair(p) ==
    /\ proc'[p].pc = "idle"
    /\ proc'[p].outcome = "success"
    /\ proc'[p].model = LoadArtifact(modelFile[proc[p].store])
    /\ proc'[p].meta = LoadMetadata(metaFile[proc[p].store])
    /\ UNCHANGED <<modelFile, metaFile, history, nextRun>>

\* thread p enters the fetch of a train call in this step
StartsRetrain(p) ==
    /\ proc[p].pc # "fetch"
    /\ proc'[p].pc = "fetch"
    /\ proc'[p].entry = "train"

\* C4 as claimed: train(force_retrain=false) returns the existing pair and
\* touches nothing whenever the existing model's age does not exceed 7 days,
\* and retrains only when forced, when there is no model, or when the age
\* exceeds 7 days.
C4_SkipsUpToMaxAge ==
    [][\A p \in Procs :
         /\ (/\ FinishesLoad(p)
             /\ proc[p].entry = "train"
             /\ StoredModelExists(proc[p].store)
             /\ StoredAgeBelow(proc[p].store, MAX_MODEL_AGE_DAYS + 1))
               => ReturnsExistingPair(p)
         /\ StartsRetrain(p)
               => \/ proc'[p].force
                  \/ ~StoredModelExists(proc[p].store)
                  \/ ~StoredAgeBelow(proc[p].store, MAX_MODEL_AGE_DAYS + 1)
      ]_vars

\* C4 amended: train(force_retrain=false) returns the existing pair and
\* touches nothing whenever the existing model's age is below 7 days, and
\* retrains only when forced, when there is no model, or when the age is 7
\* days or more (an age that cannot be read from the metadata counts as 999).
C4_SkipsBelowMaxAge ==
    [][\A p \in Procs :
         /\ (/\ FinishesLoad(p)
             /\ proc[p].entry = "train"
             /\ StoredModelExists(proc[p].store)
             /\ StoredAgeBelow(proc[p].store, MAX_MODEL_AGE_DAYS))
               => ReturnsExistingPair(p)
         /\ StartsRetrain(p)
               => \/ proc'[p].force
                  \/ ~StoredModelExists(proc[p].store)
                  \/ ~StoredAgeBelow(proc[p].store, MAX_MODEL_AGE_DAYS)
      ]_vars

\* a train call has returned the existing pair of a model younger than 7 days
C4_Witness ==
    /\ proc["req"].pc = "idle"
    /\ proc["req"].outcome = "success"
    /\ proc["req"].model = LoadArtifact(modelFile["1"])
    /\ proc["req"].model # NoneValue
    /\ StoredAgeBelow("1", MAX_MODEL_AGE_DAYS)

\* the name of a file of the history directory
ArchiveName(f) == <<f.store, f.ts, f.suffix>>

ArchivedArtifacts(s) == {f \in history : f.store = s /\ f.suffix = ""}
ArchivedMetas(s) == {f \in history : f.store = s /\ f.suffix = "_meta"}

\* C5: between training runs the history directory holds at most
\* KEEP_MODEL_HISTORY artifacts and at most KEEP_MODEL_HISTORY metadata
\* files per store, and a file that is pruned is older than every file of
\* its kind that stays.
C5_HistoryBounded ==
    /\ [](\A s \in Stores :
            (\A p \in Procs : proc[p].pc = "idle")
               => /\ Cardinality(ArchivedArtifacts(s)) <= KEEP_MODEL_HISTORY
                  /\ Cardinality(ArchivedMetas(s)) <= KEEP_MODEL_HISTORY)
    /\ [][\A f \in history : \A g \in history' :
            (ArchiveName(f) \notin {ArchiveName(h) : h \in history'}
                /\ g.store = f.store /\ g.suffix = f.suffix)
               => f.ts < g.ts]_vars

\* C7: when a train call ends in an exception, load_model returns what it
\* returned before the call.
C7_FailedTrainKeepsPair ==
    [][\A p \in Procs :
         (proc[p].pc # "idle" /\ proc'[p].pc = "idle"
             /\ proc'[p].error \notin {"none", "ValueError"})
            => LoadPair(modelFile', metaFile', proc[p].store) = proc[p].pre
      ]_vars

\* C8: a training run that failed with DataQualityError is answered with a
\* failure, never with success, retrained or up_to_date.
C8_DataQualityErrorIsReported ==
    \A p \in Procs :
        proc[p].error = "DataQualityError"
            => proc[p].outcome \in {"http_400", "http_500", "job_failed"}

----------------------------------------------------------------------------
(* validate_data_quality *)

\* The fetched frame is kept as the number of days at each sales level:
\* window[l] days have y = l.
MaxSalesLevel == 2
MaxDaysPerLevel == 30

SalesLevels == 0..MaxSalesLevel

\* y ** k for k in 0..2
Power(y, k) == IF k = 0 THEN 1 ELSE IF k = 1 THEN y ELSE y * y

RECURSIVE SumDays(_, _, _)
\* the sum of y^k over the rows with y <= l (k = 0 counts the rows)
SumDays(w, l, k) ==
    IF l < 0 THEN 0 ELSE w[l] * Power(l, k) + SumDays(w, l - 1, k)

\* len(df)
WindowLen(w) == SumDays(w, MaxSalesLevel, 0)

\* (df['y'] > 0).sum()
NonZeroDays(w) == WindowLen(w) - w[0]

\* n * (n - 1) * variance of y with ddof = 1, which has the sign of
\* df['y'].std()
ScaledVariance(w) ==
    WindowLen(w) * SumDays(w, MaxSalesLevel, 2)
        - SumDays(w, MaxSalesLevel, 1) * SumDays(w, MaxSalesLevel, 1)

\* |y - mean| / std > OUTLIER_Z_SCORE_THRESHOLD for a row with y = l, with
\* both sides squared and multiplied by 100 * n^2 * (n - 1) * std^2
IsOutlier(w, l) ==
    LET n == WindowLen(w)
        d == n * l - SumDays(w, MaxSalesLevel, 1)
    IN  100 * d * d * (n - 1)
            > OUTLIER_Z_SCORE_TENTHS * OUTLIER_Z_SCORE_TENTHS
                * n * ScaledVariance(w)

RECURSIVE OutlierDays(_, _)
\* (z_scores > OUTLIER_Z_SCORE_THRESHOLD).sum() over the rows with y <= l
OutlierDays(w, l) ==
    IF l < 0 THEN 0
    ELSE (IF IsOutlier(w, l) THEN w[l] ELSE 0) + OutlierDays(w, l - 1)

\* validate_data_quality: the error raised, or the quality report
validate_data_quality(w) ==
    IF WindowLen(w) < MIN_TRAINING_DAYS
    THEN [error |-> "DataQualityError", total_days |-> 0,
          outlier_count |-> 0]
    ELSE IF 100 * NonZeroDays(w) < MIN_NON_ZERO_DAYS_PERCENT * WindowLen(w)
    THEN [error |-> "DataQualityError", total_days |-> 0,
          outlier_count |-> 0]
    ELSE [error |-> "none", total_days |-> WindowLen(w),
          outlier_count |-> IF ScaledVariance(w) > 0
                            THEN OutlierDays(w, MaxSalesLevel) ELSE 0]

\* fetch_training_data returns the frame, or raises on an empty one
FetchTrainingData ==
    /\ quality.pc = "fetch"
    /\ quality' = IF WindowLen(window) = 0
                  THEN [quality EXCEPT !.pc = "raised",
                                       !.error = "DataQualityError"]
                  ELSE [quality EXCEPT !.pc = "validate"]
    /\ UNCHANGED <<files, calc, window, sched, pred>>

\* train_model, line 353
ValidateDataQuality ==
    /\ quality.pc = "validate"
    /\ LET r == validate_data_quality(window) IN
         quality' = IF r.error # "none"
                    THEN [quality EXCEPT !.pc = "raised", !.error = r.error]
                    ELSE [quality EXCEPT !.pc = "fit",
                                         !.total_days = r.total_days,
                                         !.outlier_count = r.outlier_count]
    /\ UNCHANGED <<files, calc, window, sched, pred>>

\* train_model, lines 355-456: preprocessing, fit and save of a validated
\* frame
FitValidated ==
    /\ quality.pc = "fit"
    /\ quality' = [quality EXCEPT !.pc = "saved"]
    /\ UNCHANGED <<files, calc, window, sched, pred>>

InitQuality ==
    /\ InitFiles
    /\ calc = ParkedCalc
    /\ window \in [SalesLevels -> 0..MaxDaysPerLevel]
    /\ quality = [ParkedQuality EXCEPT !.pc = "fetch"]
    /\ sched = ParkedSched
    /\ pred = ParkedPred

NextQuality == FetchTrainingData \/ ValidateDataQuality \/ FitValidated

SpecQuality == InitQuality /\ [][NextQuality]_vars

\* the outlier ratio of a frame is above MAX_OUTLIER_RATIO
TooManyOutliers(w) ==
    /\ WindowLen(w) > 1
    /\ ScaledVariance(w) > 0
    /\ 100 * OutlierDays(w, MaxSalesLevel) > MAX_OUTLIER_PERCENT * WindowLen(w)

\* C6: a training window with fewer than MIN_TRAINING_DAYS rows, with less
\* than 70% non-zero days or with more than 5% outliers ends in
\* DataQualityError and is never fitted or saved.
C6_BadWindowIsRejected ==
    (\/ WindowLen(window) < MIN_TRAINING_DAYS
     \/ 100 * NonZeroDays(window) < MIN_NON_ZERO_DAYS_PERCENT * WindowLen(window)
     \/ TooManyOutliers(window))
        => /\ quality.pc \in {"fetch", "validate", "raised"}
           /\ quality.pc = "raised" => quality.error = "DataQualityError"

----------------------------------------------------------------------------
(* RetrainingScheduler *)

\* sched.jobs are the stores with a job retrain_<store>; sched.cycle counts
\* the times the cron trigger has come due and sched.due holds the jobs of
\* that time which have not run yet.  calls, log, failed_in and ran_in
\* record what the jobs did: the callback invocations per store, the last
\* line a job logged, and the cycle of the last failed and of the last
\* scheduled run.
MaxCycles == 3
MaxManual == 2

AUTO_RETRAIN_ENABLED == TRUE

\* what the callback does when called: a metadata dict, None, or an
\* exception
CallbackOutcomes == {"result", "None", "raise"}

\* _retrain_job where an exception of the callback ends the scheduler loop
_retrain_job_unguarded(sch, s, outcome) ==
    IF sch.retrain_callback = "None"
    THEN [sch EXCEPT !.log[s] = "failed"]
    ELSE IF outcome = "raise"
    THEN [sch EXCEPT !.calls[s] = @ + 1,
                     !.log[s] = "failed",
                     !.is_running = FALSE,
                     !.due = {}]
    ELSE [sch EXCEPT !.calls[s] = @ + 1,
                     !.log[s] = IF outcome = "result"
                                THEN "completed" ELSE "not_needed"]

\* _retrain_job(store_id): calling a callback that was never set raises
\* TypeError, which the handler logs like any other exception
_retrain_job(sch, s, outcome) ==
    IF sch.retrain_callback = "None"
    THEN [sch EXCEPT !.log[s] = "failed"]
    ELSE [sch EXCEPT !.calls[s] = @ + 1,
                     !.log[s] = CASE outcome = "result" -> "completed"
                                  [] outcome = "None" -> "not_needed"
                                  [] OTHER -> "failed"]

SetRetrainCallback ==
    /\ sched.retrain_callback = "None"
    /\ sched' = [sched EXCEPT !.retrain_callback = "set"]
    /\ UNCHANGED <<files, calc, window, quality, pred>>

\* start(store_ids): returns early without a callback; add_job with
\* replace_existing, then scheduler.start(), which raises after the jobs
\* were added when the scheduler runs already
Start(store_ids) ==
    /\ AUTO_RETRAIN_ENABLED
    /\ sched.retrain_callback # "None"
    /\ sched' = [sched EXCEPT !.jobs = @ \cup store_ids,
                              !.is_running = TRUE]
    /\ UNCHANGED <<files, calc, window, quality, pred>>

\* the cron trigger of the jobs comes due
TriggerDue ==
    /\ sched.is_running
    /\ sched.due = {}
    /\ sched.cycle < MaxCycles
    /\ sched' = [sched EXCEPT !.cycle = @ + 1, !.due = sched.jobs]
    /\ UNCHANGED <<files, calc, window, quality, pred>>

\* the scheduler runs the job of store s
RunJob(s) ==
    /\ sched.is_running
    /\ s \in sched.due
    /\ \E outcome \in CallbackOutcomes :
         LET after == _retrain_job(sched, s, outcome) IN
           sched' = [after EXCEPT
                       !.due = @ \ {s},
                       !.ran_in[s] = sched.cycle,
                       !.failed_in[s] = IF after.log[s] = "failed"
                                        THEN sched.cycle ELSE @]
    /\ UNCHANGED <<files, calc, window, quality, pred>>

\* trigger_manual_retrain(store_id)
TriggerManualRetrain(s) ==
    /\ sched.manual < MaxManual
    /\ \E outcome \in CallbackOutcomes :
         sched' = [_retrain_job(sched, s, outcome) EXCEPT !.manual = @ + 1]
    /\ UNCHANGED <<files, calc, window, quality, pred>>

\* stop(): shutdown(wait=True) ends the loop; the memory job store drops its
\* jobs on shutdown
Stop ==
    /\ sched.is_running
    /\ sched' = [sched EXCEPT !.is_running = FALSE, !.jobs = {}, !.due = {}]
    /\ UNCHANGED <<files, calc, window, quality, pred>>

InitSched ==
    /\ InitFiles
    /\ calc = ParkedCalc
    /\ window = ParkedWindow
    /\ quality = ParkedQuality
    /\ sched = ParkedSched
    /\ pred = ParkedPred

NextSched ==
    \/ SetRetrainCallback
    \/ \E ids \in SUBSET Stores \ {{}} : Start(ids)
    \/ TriggerDue
    \/ \E s \in Stores : RunJob(s)
    \/ \E s \in Stores : TriggerManualRetrain(s)
    \/ Stop

SpecSched == InitSched /\ [][NextSched]_vars

\* C9: a job whose callback raises leaves is_running and the registered jobs
\* as they were; when the trigger next comes due every registered job is
\* due again, whatever its last run logged; and a due job that runs calls
\* the callback once more.
C9_SchedulerSurvivesFailure ==
    [][\A s \in Stores :
         /\ (sched'.log[s] = "failed" /\ sched'.calls[s] # sched.calls[s])
               => /\ sched'.is_running = sched.is_running
                  /\ sched'.jobs = sched.jobs
         /\ (sched'.cycle # sched.cycle /\ s \in sched.jobs)
               => s \in sched'.due
         /\ (s \in sched.due /\ sched'.ran_in[s] # sched.ran_in[s])
               => sched'.calls[s] = sched.calls[s] + 1
      ]_vars

\* the job of store 1 failed in the first cycle and ran again in the second
C9_Witness ==
    /\ sched.is_running
    /\ "1" \in sched.jobs
    /\ sched.failed_in["1"] = 1
    /\ sched.ran_in["1"] = 2
    /\ sched.calls["1"] >= 2

----------------------------------------------------------------------------
(* get_prediction and apply_scaler_to_df *)

\* A frame holds one value per regressor column: a number, NaN, or no
\* column of that name.  The metadata gives scaler_params (None, or columns
\* with the mean_ and scale_ dicts), regressor_scaled and accuracy.
Regressors == {"promo_intensity", "is_weekend"}
FutureNumbers == {0, 4}
StoredMeans == {2}
StoredScales == {-1, 0, 2}
StoredAccuracies == {0, 900}

NaN == [kind |-> "NaN", v |-> 0]
NoColumn == [kind |-> "absent", v |-> 0]
Number(x) == [kind |-> "number", v |-> x]

Cells == {NaN, NoColumn} \cup {Number(x) : x \in FutureNumbers}

PartialDicts(values) ==
    UNION {[cols -> values] : cols \in SUBSET Regressors}

\* apply_scaler_to_df on one column
ScaledColumn(cell, mean_val, scale_val) ==
    LET x == IF cell.kind = "number" THEN cell.v ELSE mean_val
    IN  IF scale_val > 0
        THEN Number((x - mean_val) \div scale_val)
        ELSE Number(0)

\* apply_scaler_to_df(df, scaler_params): the error raised, or the frame
\* returned
apply_scaler_to_df(df, params) ==
    IF \E c \in params.columns :
           c \notin DOMAIN params.mean_ \/ c \notin DOMAIN params.scale_
    THEN [error |-> "ValueError", df |-> df]
    ELSE [error |-> "none",
          df |-> [c \in Regressors |->
                    IF c \in params.columns
                    THEN ScaledColumn(df[c], params.mean_[c],
                                      params.scale_[c])
                    ELSE df[c]]]

\* get_prediction, line 2356
UsesScaler(q) == q.regressor_scaled /\ q.scaler_params.present

\* get_prediction, lines 2305-2308: without a stored accuracy
\* calculate_forecast_accuracy scales a validation frame and predicts on
\* it; whatever it raises is caught there
AccuracyFallback ==
    /\ pred.pc = "accuracy"
    /\ LET r == apply_scaler_to_df(pred.future, pred.scaler_params) IN
         pred' = [pred EXCEPT
                    !.pc = "scale",
                    !.predict_calls =
                        IF pred.accuracy # 0 THEN @
                        ELSE IF UsesScaler(pred) /\ r.error # "none" THEN @
                        ELSE @ + 1]
    /\ UNCHANGED <<files, calc, window, quality, sched>>

\* get_prediction, lines 2350-2357; a ValueError ends in the handler of
\* line 2675 as HTTP 500
ApplyScaler ==
    /\ pred.pc = "scale"
    /\ LET r == apply_scaler_to_df(pred.future, pred.scaler_params) IN
         pred' = IF ~UsesScaler(pred)
                 THEN [pred EXCEPT !.pc = "predict"]
                 ELSE IF r.error # "none"
                 THEN [pred EXCEPT !.pc = "done", !.response = "http_500"]
                 ELSE [pred EXCEPT !.pc = "predict", !.future = r.df]
    /\ UNCHANGED <<files, calc, window, quality, sched>>

\* get_prediction, lines 2366-2390: NaN left in a column is replaced by the
\* column mean, or 0.0 when there is none, and model.predict is called
Predict ==
    /\ pred.pc = "predict"
    /\ pred' = [pred EXCEPT
                  !.pc = "done",
                  !.fed = [c \in Regressors |->
                             IF pred.future[c].kind = "NaN"
                             THEN Number(0) ELSE pred.future[c]],
                  !.predict_calls = @ + 1,
                  !.response = "success"]
    /\ UNCHANGED <<files, calc, window, quality, sched>>

InitPredict ==
    /\ InitFiles
    /\ calc = ParkedCalc
    /\ window = ParkedWindow
    /\ quality = ParkedQuality
    /\ sched = ParkedSched
    /\ \E acc \in StoredAccuracies, scaled \in BOOLEAN, present \in BOOLEAN,
          cols \in SUBSET Regressors,
          means \in PartialDicts(StoredMeans),
          scales \in PartialDicts(StoredScales),
          df \in [Regressors -> Cells] :
         pred = [pc |-> "accuracy", accuracy |-> acc,
                 regressor_scaled |-> scaled,
                 scaler_params |->
                     IF present
                     THEN [present |-> TRUE, columns |-> cols,
                           mean_ |-> means, scale_ |-> scales]
                     ELSE ParkedPred.scaler_params,
                 future |-> df, fed |-> <<>>, predict_calls |-> 0,
                 response |-> "none"]

NextPredict == AccuracyFallback \/ ApplyScaler \/ Predict

SpecPredict == InitPredict /\ [][NextPredict]_vars

\* a listed column has no mean or no scale
IncompleteParams(params) ==
    \E c \in params.columns :
        c \notin DOMAIN params.mean_ \/ c \notin DOMAIN params.scale_

\* a listed column has a scale that is not positive
InvalidScale(params) ==
    \E c \in params.columns :
        c \in DOMAIN params.scale_ /\ params.scale_[c] <= 0

\* C10: a prediction that scales its regressors with incomplete or invalid
\* ScalerParams never calls predict, hands no frame to the engine and ends
\* in a failure.
C10_BadScalerParamsFail ==
    (UsesScaler(pred)
        /\ (IncompleteParams(pred.scaler_params)
               \/ InvalidScale(pred.scaler_params)))
        => /\ pred.predict_calls = 0
           /\ pred.fed = <<>>
           /\ pred.response \in {"none", "http_500"}

----------------------------------------------------------------------------
(* The two scaler transforms *)

\* ModelTrainer.apply_scaler on one column: a column that is not in the
\* frame, or has no mean or no scale, is passed over; so is a column whose
\* scale is not positive.  NaN stays NaN under the arithmetic.
TrainerScaledColumn(cell, params, c) ==
    IF /\ cell.kind # "absent"
       /\ c \in DOMAIN params.mean_
       /\ c \in DOMAIN params.scale_
       /\ params.scale_[c] > 0
    THEN IF cell.kind = "NaN" THEN NaN
         ELSE Number((cell.v - params.mean_[c]) \div params.scale_[c])
    ELSE cell

\* ModelTrainer.apply_scaler(df, scaler_params)
apply_scaler(df, params) ==
    [c \in Regressors |->
        IF c \in params.columns
        THEN TrainerScaledColumn(df[c], params, c)
        ELSE df[c]]

TransformNames == {"apply_scaler", "apply_scaler_to_df"}

\* ModelTrainer.apply_scaler is called
CallApplyScaler ==
    /\ calc.fn = "apply_scaler"
    /\ calc.pc = "call"
    /\ calc' = [calc EXCEPT !.pc = "returned",
                            !.out = apply_scaler(calc.df, calc.params)]
    /\ UNCHANGED <<files, window, quality, sched, pred>>

\* apply_scaler_to_df is called
CallApplyScalerToDf ==
    /\ calc.fn = "apply_scaler_to_df"
    /\ calc.pc = "call"
    /\ LET r == apply_scaler_to_df(calc.df, calc.params) IN
         calc' = [calc EXCEPT !.pc = "returned",
                              !.error = r.error,
                              !.out = r.df]
    /\ UNCHANGED <<files, window, quality, sched, pred>>

InitScaler ==
    /\ InitFiles
    /\ window = ParkedWindow
    /\ quality = ParkedQuality
    /\ sched = ParkedSched
    /\ pred = ParkedPred
    /\ \E fn \in TransformNames, cols \in SUBSET Regressors,
          means \in PartialDicts(StoredMeans),
          scales \in PartialDicts(StoredScales),
          df \in [Regressors -> Cells] :
         calc = [fn |-> fn, pc |-> "call", df |-> df,
                 params |-> [present |-> TRUE, columns |-> cols,
                             mean_ |-> means, scale_ |-> scales],
                 error |-> "none", out |-> df]

NextScaler == CallApplyScaler \/ CallApplyScalerToDf

SpecScaler == InitScaler /\ [][NextScaler]_vars

\* C11: each of the two transforms, given complete parameters, returns
\* without an error and with 0.0 in every column that holds a number and
\* whose stored scale is 0.
C11_ZeroScaleGivesZero ==
    (calc.pc = "returned" /\ ~IncompleteParams(calc.params))
        => /\ calc.error = "none"
           /\ \A c \in calc.params.columns :
                (calc.params.scale_[c] = 0 /\ calc.df[c].kind = "number")
                    => calc.out[c] = Number(0)

\* C12: each of the two transforms, given complete parameters and a frame
\* without one of the fitted columns, returns a frame that has the column
\* with the scaled training mean, 0.0, in it, and no NaN in a fitted column.
C12_MissingColumnIsFilled ==
    (/\ calc.pc = "returned"
     /\ ~IncompleteParams(calc.params)
     /\ \E c \in calc.params.columns : calc.df[c].kind = "absent")
        => /\ calc.error = "none"
           /\ \A c \in calc.params.columns :
                /\ calc.out[c].kind = "number"
                /\ calc.df[c].kind = "absent" => calc.out[c] = Number(0)

----------------------------------------------------------------------------
(* get_prophet_params and calculate_dynamic_changepoint_scale *)

\* Prior scales are counted in ten-thousandths (0.03 is 300).  The target's
\* standard deviation and mean are integers, cv is their quotient and is
\* never stored as a number: tests on it are tests on y_std and y_mean.
SHORT_DATA_THRESHOLD == 90
MEDIUM_DATA_THRESHOLD == 180
CHANGEPOINT_SCALE_MIN == 100
CHANGEPOINT_SCALE_MAX == 1500

MaxDataLength == 182
MaxTargetStd == 6
MaxTargetMean == 8

PROPHET_PARAMS_SHORT ==
    [preset |-> "short", changepoint_prior_scale |-> 300]
PROPHET_PARAMS_MEDIUM ==
    [preset |-> "medium", changepoint_prior_scale |-> 200]
PROPHET_PARAMS_LONG ==
    [preset |-> "long", changepoint_prior_scale |-> 800]

get_prophet_params(data_length) ==
    IF data_length < SHORT_DATA_THRESHOLD THEN PROPHET_PARAMS_SHORT
    ELSE IF data_length < MEDIUM_DATA_THRESHOLD THEN PROPHET_PARAMS_MEDIUM
    ELSE PROPHET_PARAMS_LONG

Min(a, b) == IF a < b THEN a ELSE b
Max(a, b) == IF a > b THEN a ELSE b

\* calculate_dynamic_changepoint_scale with cv <= 0.25 for cv < 0.25
calculate_dynamic_changepoint_scale_inclusive(y_std, y_mean, base_scale) ==
    LET scale == IF y_mean > 0 /\ 4 * y_std <= y_mean
                 THEN (base_scale * 8) \div 10
                 ELSE IF y_mean > 0 /\ 2 * y_std > y_mean
                 THEN (base_scale * 12) \div 10
                 ELSE base_scale
    IN  Max(CHANGEPOINT_SCALE_MIN, Min(scale, CHANGEPOINT_SCALE_MAX))

\* calculate_dynamic_changepoint_scale: the scale it returns.  cv is
\* y_std / y_mean when y_mean > 0 and 0.5 otherwise, so cv < 0.25 is
\* 4 * y_std < y_mean and cv > 0.5 is 2 * y_std > y_mean.
calculate_dynamic_changepoint_scale(y_std, y_mean, base_scale) ==
    LET scale == IF y_mean > 0 /\ 4 * y_std < y_mean
                 THEN (base_scale * 8) \div 10
                 ELSE IF y_mean > 0 /\ 2 * y_std > y_mean
                 THEN (base_scale * 12) \div 10
                 ELSE base_scale
    IN  Max(CHANGEPOINT_SCALE_MIN, Min(scale, CHANGEPOINT_SCALE_MAX))

\* round(cv, 4) in ten-thousandths: the integer nearest to 10000 * cv
RoundedCv(y_std, y_mean) ==
    IF y_mean > 0
    THEN (2 * 10000 * y_std + y_mean) \div (2 * y_mean)
    ELSE 5000

\* train_model, line 384
SelectParams ==
    /\ calc.fn = "params"
    /\ calc.pc = "select"
    /\ calc' = [calc EXCEPT !.pc = "adjust",
                            !.prophet_params = get_prophet_params(calc.n)]
    /\ UNCHANGED <<files, window, quality, sched, pred>>

\* train_model, lines 387-389
AdjustChangepointScale ==
    /\ calc.fn = "params"
    /\ calc.pc = "adjust"
    /\ calc' = [calc EXCEPT
                  !.pc = "metadata",
                  !.base_scale = calc.prophet_params.changepoint_prior_scale,
                  !.prophet_params.changepoint_prior_scale =
                      calculate_dynamic_changepoint_scale(
                          calc.y_std, calc.y_mean,
                          calc.prophet_params.changepoint_prior_scale)]
    /\ UNCHANGED <<files, window, quality, sched, pred>>

\* train_model, lines 429-430
RecordParams ==
    /\ calc.fn = "params"
    /\ calc.pc = "metadata"
    /\ calc' = [calc EXCEPT
                  !.pc = "recorded",
                  !.metadata =
                      [cv |-> RoundedCv(calc.y_std, calc.y_mean),
                       changepoint_prior_scale |->
                           calc.prophet_params.changepoint_prior_scale]]
    /\ UNCHANGED <<files, window, quality, sched, pred>>

InitParams ==
    /\ InitFiles
    /\ window = ParkedWindow
    /\ quality = ParkedQuality
    /\ sched = ParkedSched
    /\ pred = ParkedPred
    /\ \E n \in 0..MaxDataLength, y_std \in 0..MaxTargetStd,
          y_mean \in 0..MaxTargetMean :
         calc = [fn |-> "params", pc |-> "select", n |-> n,
                 y_std |-> y_std, y_mean |-> y_mean,
                 prophet_params |-> [preset |-> "none",
                                     changepoint_prior_scale |-> 0],
                 base_scale |-> 0,
                 metadata |-> [cv |-> 0, changepoint_prior_scale |-> 0]]

NextParams == SelectParams \/ AdjustChangepointScale \/ RecordParams

SpecParams == InitParams /\ [][NextParams]_vars

\* C13: the preset selected for n rows is the short one for n < 90, the
\* medium one for 90 <= n <= 180 and the long one for n > 180.
C13_TierByLength ==
    (calc.fn = "params" /\ calc.pc # "select")
        => calc.prophet_params.preset =
              IF calc.n < SHORT_DATA_THRESHOLD THEN "short"
              ELSE IF calc.n <= MEDIUM_DATA_THRESHOLD THEN "medium"
              ELSE "long"

\* base * f clamped, f read from the claim: 0.8 below a cv of 0.25, 1.2
\* above a cv of 0.5, 1 otherwise (a target mean of 0 gives cv = 0.5)
ClaimedScale(y_std, y_mean, base) ==
    LET f10 == IF y_mean > 0 /\ 4 * y_std < y_mean THEN 8
               ELSE IF y_mean > 0 /\ 2 * y_std > y_mean THEN 12
               ELSE 10
        x == (base * f10) \div 10
    IN  IF x < CHANGEPOINT_SCALE_MIN THEN CHANGEPOINT_SCALE_MIN
        ELSE IF x > CHANGEPOINT_SCALE_MAX THEN CHANGEPOINT_SCALE_MAX
        ELSE x

\* the final scale is the claimed one, lies in [0.01, 0.15] and is the one
\* in the metadata
ScaleAsClaimed ==
    /\ calc.pc \in {"metadata", "recorded"}
          => /\ calc.prophet_params.changepoint_prior_scale
                   = ClaimedScale(calc.y_std, calc.y_mean, calc.base_scale)
             /\ calc.prophet_params.changepoint_prior_scale
                   \in CHANGEPOINT_SCALE_MIN..CHANGEPOINT_SCALE_MAX
    /\ calc.pc = "recorded"
          => calc.metadata.changepoint_prior_scale
                 = ClaimedScale(calc.y_std, calc.y_mean, calc.base_scale)

----------------------------------------------------------------------------
(* The trailing window of fetch_training_data and data_points *)

\* The summary table holds one row per day for the days first..last, and
\* training runs on day today >= last with end_date = None.
TRAINING_WINDOW_DAYS == 365

MaxHistoryDays == 368
MaxDaysSinceLastRow == 2

\* WHERE ds >= :start_date AND ds <= :end_date, with
\* start_date = end_date - timedelta(days=TRAINING_WINDOW_DAYS)
FetchedDays(first, last, end_date) ==
    {d \in first..last :
        d >= end_date - TRAINING_WINDOW_DAYS /\ d <= end_date}

\* train_model, lines 350-353: an empty frame and a frame of fewer than
\* MIN_TRAINING_DAYS rows end in DataQualityError
FetchWindow ==
    /\ calc.fn = "window"
    /\ calc.pc = "fetch"
    /\ LET rows == Cardinality(FetchedDays(1, calc.history_days,
                                           calc.today)) IN
         calc' = IF rows < MIN_TRAINING_DAYS
                 THEN [calc EXCEPT !.pc = "raised",
                                   !.error = "DataQualityError"]
                 ELSE [calc EXCEPT !.pc = "fetched", !.rows = rows]
    /\ UNCHANGED <<files, window, quality, sched, pred>>

\* train_model, line 426: OUTLIER_HANDLING = "clip" and the steps after it
\* keep every row, so len(df) is the number of rows fetched
RecordDataPoints ==
    /\ calc.fn = "window"
    /\ calc.pc = "fetched"
    /\ calc' = [calc EXCEPT !.pc = "recorded",
                            !.metadata.data_points = calc.rows,
                            !.metadata.training_window_days =
                                TRAINING_WINDOW_DAYS]
    /\ UNCHANGED <<files, window, quality, sched, pred>>

InitWindow ==
    /\ InitFiles
    /\ window = ParkedWindow
    /\ quality = ParkedQuality
    /\ sched = ParkedSched
    /\ pred = ParkedPred
    /\ \E h \in 0..MaxHistoryDays, since \in 0..MaxDaysSinceLastRow :
         calc = [fn |-> "window", pc |-> "fetch", history_days |-> h,
                 today |-> h + since, rows |-> 0, error |-> "none",
                 metadata |-> [data_points |-> 0,
                               training_window_days |-> 0]]

NextWindow == FetchWindow \/ RecordDataPoints

SpecWindow == InitWindow /\ [][NextWindow]_vars

\* C15: data_points is the number of daily rows in the trailing window,
\* never more than the window's length in days, and 180 for 200 consecutive
\* days of history that end today.
C15_DataPointsWithinWindow ==
    (calc.fn = "window" /\ calc.pc = "recorded")
        => /\ calc.metadata.data_points
                 <= calc.metadata.training_window_days
           /\ calc.metadata.data_points
                 = Cardinality({d \in 1..calc.history_days :
                      /\ d > calc.today - calc.metadata.training_window_days
                      /\ d <= calc.today})
           /\ (calc.history_days = 200 /\ calc.today = 200)
                 => calc.metadata.data_points = 180

----------------------------------------------------------------------------
(* _calculate_accuracy_detailed and the accuracy fields of the metadata *)

\* Percentages are counted in thousandths of a percent (82.05 is 82050).
\* The engine is a black box: the two MAPE values it leads to are inputs,
\* and so is whether apply_scaler or predict raises.
VALIDATION_DAYS == 14
PERCENT == 1000

MaxFrameRows == 60
MaxMapeStep == 12
MapeStep == 10007

\* round(x, k) for x >= 0, to the nearest multiple of unit, ties to even
RoundTo(x, unit) ==
    LET q == x \div unit
        r == x % unit
    IN  IF 2 * r > unit \/ (2 * r = unit /\ q % 2 = 1)
        THEN (q + 1) * unit
        ELSE q * unit

\* _calculate_accuracy_detailed: <<accuracy, train_mape, val_mape>>
calculate_accuracy_detailed(rows, train_mape, val_mape, raises) ==
    IF rows < MIN_TRAINING_DAYS + VALIDATION_DAYS THEN <<0, 0, 0>>
    ELSE IF raises THEN <<0, 0, 0>>
    ELSE <<RoundTo(Max(0, Min(100 * PERCENT, 100 * PERCENT - val_mape)),
                   PERCENT \div 10),
           RoundTo(train_mape, PERCENT \div 100),
           RoundTo(val_mape, PERCENT \div 100)>>

\* train_model, lines 444-449
RecordAccuracy ==
    /\ calc.fn = "accuracy"
    /\ calc.pc = "score"
    /\ LET r == calculate_accuracy_detailed(calc.rows, calc.train_mape,
                                            calc.val_mape, calc.raises)
       IN  calc' = [calc EXCEPT
                      !.pc = "recorded",
                      !.metadata = [accuracy |-> r[1],
                                    train_mape |-> r[2],
                                    validation_mape |-> r[3]]]
    /\ UNCHANGED <<files, window, quality, sched, pred>>

\* train_model, line 454
SaveScored ==
    /\ calc.fn = "accuracy"
    /\ calc.pc = "recorded"
    /\ calc' = [calc EXCEPT !.pc = "saved"]
    /\ UNCHANGED <<files, window, quality, sched, pred>>

InitAccuracy ==
    /\ InitFiles
    /\ window = ParkedWindow
    /\ quality = ParkedQuality
    /\ sched = ParkedSched
    /\ pred = ParkedPred
    /\ \E rows \in MIN_TRAINING_DAYS..MaxFrameRows,
          t \in 0..MaxMapeStep, v \in 0..MaxMapeStep, raises \in BOOLEAN :
         calc = [fn |-> "accuracy", pc |-> "score", rows |-> rows,
                 train_mape |-> t * MapeStep, val_mape |-> v * MapeStep,
                 raises |-> raises, metadata |-> <<>>]

NextAccuracy == RecordAccuracy \/ SaveScored

SpecAccuracy == InitAccuracy /\ [][NextAccuracy]_vars

\* C16: every metadata record that reaches save has train_mape and
\* validation_mape and an accuracy equal to 100 - validation_mape rounded
\* to one decimal and clamped to [0, 100].
C16_AccuracyFromValidationMape ==
    (calc.fn = "accuracy" /\ calc.pc = "saved")
        => /\ {"train_mape", "validation_mape"} \subseteq DOMAIN calc.metadata
           /\ calc.metadata.accuracy
                 = IF calc.metadata.validation_mape >= 100 * PERCENT THEN 0
                   ELSE RoundTo(100 * PERCENT - calc.metadata.validation_mape,
                                PERCENT \div 10)

----------------------------------------------------------------------------
(* The rows the scaler and the engine are fitted on, and the rows scored *)

\* The preprocessed frame has the rows 1..rows in date order.
\* train_model, line 392: fit_scaler(df) takes the whole frame
FitScalerOnFrame ==
    /\ calc.fn = "holdout"
    /\ calc.pc = "fit_scaler"
    /\ calc' = [calc EXCEPT !.pc = "fit",
                            !.scaler_rows = 1..calc.rows]
    /\ UNCHANGED <<files, window, quality, sched, pred>>

\* train_model, lines 408-415: model.fit on every row of the scaled frame
FitEngineOnFrame ==
    /\ calc.fn = "holdout"
    /\ calc.pc = "fit"
    /\ calc' = [calc EXCEPT !.pc = "split",
                            !.fit_rows = 1..calc.rows]
    /\ UNCHANGED <<files, window, quality, sched, pred>>

\* _calculate_accuracy_detailed, lines 472-478: df.iloc[:-VALIDATION_DAYS]
\* and df.iloc[-VALIDATION_DAYS:] of the frame that was fitted
SplitValidation ==
    /\ calc.fn = "holdout"
    /\ calc.pc = "split"
    /\ calc' = IF calc.rows < MIN_TRAINING_DAYS + VALIDATION_DAYS
               THEN [calc EXCEPT !.pc = "unscored"]
               ELSE [calc EXCEPT
                       !.pc = "score",
                       !.train_rows = 1..(calc.rows - VALIDATION_DAYS),
                       !.val_rows =
                           (calc.rows - VALIDATION_DAYS + 1)..calc.rows]
    /\ UNCHANGED <<files, window, quality, sched, pred>>

\* _calculate_accuracy_detailed, lines 503-512: the validation rows are
\* scaled with the parameters of line 392 and predicted by the model of
\* line 415
ScoreValidation ==
    /\ calc.fn = "holdout"
    /\ calc.pc = "score"
    /\ calc' = [calc EXCEPT !.pc = "scored",
                            !.scored_rows = calc.val_rows]
    /\ UNCHANGED <<files, window, quality, sched, pred>>

InitHoldout ==
    /\ InitFiles
    /\ window = ParkedWindow
    /\ quality = ParkedQuality
    /\ sched = ParkedSched
    /\ pred = ParkedPred
    /\ \E rows \in MIN_TRAINING_DAYS..MaxFrameRows :
         calc = [fn |-> "holdout", pc |-> "fit_scaler", rows |-> rows,
                 scaler_rows |-> {}, fit_rows |-> {}, train_rows |-> {},
                 val_rows |-> {}, scored_rows |-> {}]

NextHoldout ==
    FitScalerOnFrame \/ FitEngineOnFrame \/ SplitValidation
        \/ ScoreValidation

SpecHoldout == InitHoldout /\ [][NextHoldout]_vars

\* C17: no row of the validation slice that is scored is among the rows the
\* engine was fitted on or among the rows the scaler was fitted on.
C17_ValidationIsHeldOut ==
    calc.fn = "holdout"
        => /\ calc.scored_rows \cap calc.fit_rows = {}
           /\ calc.scored_rows \cap calc.scaler_rows = {}

----------------------------------------------------------------------------
(* add_lag_features *)

\* A frame is the sequence of its targets in date order.  A feature value
\* is a fraction <<numerator, denominator>>; two values of the same row of
\* two frames of one length have the same denominator.
LAG_DAYS == 7
ROLLING_WINDOW == 7
ROLLING_MIN_PERIODS == 3
ROLLING_COMMON_DENOMINATOR == 420

MaxLagRows == 8
LagTargets == {1, 2}

RECURSIVE SumOver(_, _, _, _)
\* the sum of y[j] ** k for j in lo..hi
SumOver(y, lo, hi, k) ==
    IF lo > hi THEN 0 ELSE Power(y[hi], k) + SumOver(y, lo, hi - 1, k)

\* the rows of y.shift(1).rolling(window=7) at row i
RollingFrom(i) == Max(1, i - ROLLING_WINDOW)
RollingCount(i) == (i - 1) - RollingFrom(i) + 1

\* df["y"].shift(7) has a value at row i
HasLag(i) == i > LAG_DAYS
\* min_periods=3 is met at row i
HasRolling(i) == RollingCount(i) >= ROLLING_MIN_PERIODS

\* rolling mean at row i over the common denominator
RollingMeanScaled(y, i) ==
    SumOver(y, RollingFrom(i), i - 1, 1)
        * (ROLLING_COMMON_DENOMINATOR \div RollingCount(i))

RECURSIVE SumRollingMeans(_, _)
SumRollingMeans(y, i) ==
    IF i < 1 THEN 0
    ELSE (IF HasRolling(i) THEN RollingMeanScaled(y, i) ELSE 0)
             + SumRollingMeans(y, i - 1)

\* lag_7 at row i after fillna with the column mean (0 without any value)
lag_7(y, i) ==
    IF HasLag(i) THEN <<y[i - LAG_DAYS], 1>>
    ELSE IF Len(y) > LAG_DAYS
    THEN <<SumOver(y, 1, Len(y) - LAG_DAYS, 1), Len(y) - LAG_DAYS>>
    ELSE <<0, 1>>

\* rolling_mean_7 at row i after fillna with the column mean
rolling_mean_7(y, i) ==
    IF HasRolling(i)
    THEN <<RollingMeanScaled(y, i), ROLLING_COMMON_DENOMINATOR>>
    ELSE IF \E j \in 1..Len(y) : HasRolling(j)
    THEN <<SumRollingMeans(y, Len(y)),
           ROLLING_COMMON_DENOMINATOR
               * Cardinality({j \in 1..Len(y) : HasRolling(j)})>>
    ELSE <<0, 1>>

\* the square of rolling_std_7 at row i (ddof = 1) where the row has one
RollingVariance(y, i) ==
    <<RollingCount(i) * SumOver(y, RollingFrom(i), i - 1, 2)
          - SumOver(y, RollingFrom(i), i - 1, 1)
              * SumOver(y, RollingFrom(i), i - 1, 1),
      RollingCount(i) * (RollingCount(i) - 1)>>

\* rolling_std_7 at row i: its square, or for a filled row the squares the
\* column mean is taken of
rolling_std_7(y, i) ==
    IF HasRolling(i)
    THEN [filled |-> FALSE, squares |-> <<RollingVariance(y, i)>>]
    ELSE [filled |-> TRUE,
          squares |-> [j \in {k \in 1..Len(y) : HasRolling(k)} |->
                          RollingVariance(y, j)]]

\* add_lag_features(df): the three features of every row
add_lag_features(y) ==
    [i \in 1..Len(y) |->
        [lag_7 |-> lag_7(y, i),
         rolling_mean_7 |-> rolling_mean_7(y, i),
         rolling_std_7 |-> rolling_std_7(y, i)]]

\* add_lag_features is called on two frames
AddLagFeatures ==
    /\ calc.fn = "lags"
    /\ calc.pc = "call"
    /\ calc' = [calc EXCEPT !.pc = "returned",
                            !.out = add_lag_features(calc.y),
                            !.out_changed = add_lag_features(calc.changed)]
    /\ UNCHANGED <<files, window, quality, sched, pred>>

\* two frames of one length that differ in at most one row, at row date or
\* later
InitLags ==
    /\ InitFiles
    /\ window = ParkedWindow
    /\ quality = ParkedQuality
    /\ sched = ParkedSched
    /\ pred = ParkedPred
    /\ \E n \in LAG_DAYS + 1..MaxLagRows :
         \E y \in [1..n -> LagTargets], date \in 1..n :
           \E row \in date..n, target \in LagTargets :
             calc = [fn |-> "lags", pc |-> "call", y |-> y,
                     changed |-> [y EXCEPT ![row] = target],
                     date |-> date,
                     out |-> <<>>, out_changed |-> <<>>]

NextLags == AddLagFeatures

SpecLags == InitLags /\ [][NextLags]_vars

\* C18: lag_7 and rolling_mean_7 at a date, filled or not, and rolling_std_7
\* where it is not filled, are the same for two frames that differ only in
\* a target at that date or later.
C18_LagFeaturesIgnoreLaterTargets ==
    (calc.fn = "lags" /\ calc.pc = "returned")
        => /\ calc.out[calc.date].lag_7 = calc.out_changed[calc.date].lag_7
           /\ calc.out[calc.date].rolling_mean_7
                 = calc.out_changed[calc.date].rolling_mean_7
           /\ ~calc.out[calc.date].rolling_std_7.filled
                 => calc.out[calc.date].rolling_std_7
                       = calc.out_changed[calc.date].rolling_std_7

----------------------------------------------------------------------------
(* generate_future_regressors_clean *)

\* A date is a day number; day 1 is a Monday and the first day of a month of
\* 31 days, which a month of 29 days follows.  A history row is
\* [ds, transactions_count, avg_ticket].  Statistics and synthesized values
\* are in thousandths, rounded down.
MILLI == 1000

Weekday(d) == (d - 1) % 7
DayOfMonth(d) == IF d <= 31 THEN d ELSE IF d <= 60 THEN d - 31 ELSE d - 60
IsWeekend(d) == Weekday(d) \in {5, 6}
IsPayday(d) == DayOfMonth(d) >= 25 \/ DayOfMonth(d) <= 5

RECURSIVE SumAt(_, _, _, _)
\* the sum of a column of the frame h over those of its first n rows that
\* are in rows
SumAt(h, column, rows, n) ==
    IF n = 0 THEN 0
    ELSE (IF n \in rows THEN h[n][column] ELSE 0)
             + SumAt(h, column, rows, n - 1)

\* Series.mean() over the rows of rows (not empty)
MeanAt(h, column, rows) ==
    (MILLI * SumAt(h, column, rows, Len(h))) \div Cardinality(rows)

\* the k-th smallest value of a column over the rows of rows
KthAt(h, column, rows, k) ==
    CHOOSE v \in {h[i][column] : i \in rows} :
        /\ Cardinality({i \in rows : h[i][column] < v}) < k
        /\ k <= Cardinality({i \in rows : h[i][column] <= v})

\* Series.median() over the rows of rows (not empty)
MedianAt(h, column, rows) ==
    IF Cardinality(rows) % 2 = 1
    THEN MILLI * KthAt(h, column, rows, (Cardinality(rows) + 1) \div 2)
    ELSE (MILLI * (KthAt(h, column, rows, Cardinality(rows) \div 2)
                       + KthAt(h, column, rows, Cardinality(rows) \div 2 + 1)))
             \div 2

\* the rows of Series.tail(k)
TailRows(h, k) == {i \in 1..Len(h) : i > Len(h) - k}

\* the rows of the frame on one weekday, and on the paydays
RowsOn(h, wd) == {i \in 1..Len(h) : Weekday(h[i].ds) = wd}
PaydayRows(h) == {i \in 1..Len(h) : IsPayday(h[i].ds)}

\* payday_boost: the mean of the paydays over the mean of the other days,
\* within [0.9, 1.3], when both exist and the latter is positive
PaydayBoost(h, payday, other) ==
    IF payday # {} /\ other # {}
       /\ MeanAt(h, "transactions_count", other) > 0
    THEN Max(900, Min(1300,
             (MILLI * MeanAt(h, "transactions_count", payday))
                 \div MeanAt(h, "transactions_count", other)))
    ELSE MILLI

\* the statistics of the historical frame, or the fallback defaults
HistoricalStatistics(h) ==
    IF Len(h) >= 7
    THEN [txn_ma_14 |->
              Max(1 * MILLI, MeanAt(h, "transactions_count", TailRows(h, 14))),
          ticket_median_30 |->
              Max(10 * MILLI, MedianAt(h, "avg_ticket", TailRows(h, 30))),
          weekday_txn_avg |->
              [wd \in {Weekday(h[i].ds) : i \in 1..Len(h)} |->
                  MeanAt(h, "transactions_count", RowsOn(h, wd))],
          weekday_ticket_avg |->
              [wd \in {Weekday(h[i].ds) : i \in 1..Len(h)} |->
                  MedianAt(h, "avg_ticket", RowsOn(h, wd))],
          payday_boost |->
              PaydayBoost(h, PaydayRows(h), (1..Len(h)) \ PaydayRows(h))]
    ELSE [txn_ma_14 |-> 50 * MILLI,
          ticket_median_30 |-> 75 * MILLI,
          weekday_txn_avg |-> <<>>,
          weekday_ticket_avg |-> <<>>,
          payday_boost |-> MILLI]

\* Series.clip(lower, upper) that leaves out the upper end
Clip_without_upper(x, lower, upper) == Max(lower, x)
\* Series.clip(lower, upper)
Clip(x, lower, upper) == Max(lower, Min(upper, x))

\* promo_map, holiday_map, event_map, closure_map at one date: the sum of the
\* lookup cut at 2.0 by min(sum, 2.0), which leaves NaN as it is, and 0.0 for
\* a date that is not in the lookup
IntensityAt(event_lookup, d, column) ==
    IF d \in DOMAIN event_lookup
    THEN IF event_lookup[d][column] = NaN THEN NaN
         ELSE Number(Min(event_lookup[d][column].v, 2 * MILLI))
    ELSE Number(0)

\* value > 0, which is false of NaN
IsPositive(cell) == cell # NaN /\ cell.v > 0

\* an intensity column after the final pass: NaN filled with the mean of the
\* column (0.0 when the column has no number), then clip(0, 2.0)
\* (FilledAndClipped is the fill and the clip, given the mean)
FilledAndClipped(column, col_mean) ==
    [i \in 1..Len(column) |->
        Number(Clip(IF column[i] = NaN THEN col_mean ELSE column[i].v,
                    0, 2 * MILLI))]

FinalIntensity(column) ==
    FilledAndClipped(column,
        IF \A i \in 1..Len(column) : column[i] = NaN THEN 0
        ELSE SumAt(column, "v", {i \in 1..Len(column) : column[i] # NaN},
                   Len(column))
                 \div Cardinality({i \in 1..Len(column) : column[i] # NaN}))

\* the transactions_count of one target date before smoothing
BaseTransactions(stats, event_lookup, d) ==
    LET base == IF Weekday(d) \in DOMAIN stats.weekday_txn_avg
                THEN stats.weekday_txn_avg[Weekday(d)]
                ELSE stats.txn_ma_14
        weekend == IF IsWeekend(d) THEN (base * 115) \div 100 ELSE base
        paid == IF IsPayday(d)
                THEN (weekend * stats.payday_boost) \div MILLI
                ELSE weekend
        promo == IntensityAt(event_lookup, d, "promo_intensity")
        holiday == IntensityAt(event_lookup, d, "holiday_intensity")
        closure == IntensityAt(event_lookup, d, "closure_intensity")
        promoted == IF IsPositive(promo)
                    THEN (paid * (MILLI + (promo.v * 3) \div 10)) \div MILLI
                    ELSE paid
        spiked == IF IsPositive(holiday)
                  THEN (promoted * (MILLI + (holiday.v * 2) \div 10))
                           \div MILLI
                  ELSE promoted
    IN IF IsPositive(closure)
       THEN (spiked * Max(100, MILLI - closure.v)) \div MILLI
       ELSE spiked

\* the avg_ticket of one target date before smoothing
BaseTicket(stats, d) ==
    IF Weekday(d) \in DOMAIN stats.weekday_ticket_avg
    THEN stats.weekday_ticket_avg[Weekday(d)]
    ELSE stats.ticket_median_30

RECURSIVE Smoothed(_, _)
\* exponential smoothing (alpha = 0.3) of the values x, at row i
Smoothed(x, i) ==
    IF i = 1 THEN x[1] ELSE (3 * x[i] + 7 * Smoothed(x, i - 1)) \div 10

\* a continuous column: smoothed when there are more than 3 target dates
Stabilised(x) ==
    IF Len(x) > 3 THEN [i \in 1..Len(x) |-> Smoothed(x, i)] ELSE x

\* a * b of two values in thousandths
Product(a, b) ==
    (a \div MILLI) * b + (a % MILLI) * (b \div MILLI)
        + ((a % MILLI) * (b % MILLI)) \div MILLI

\* the rows of the frame, from its columns after the final range pass
FrameRows(dates, holiday_dates, promo, holiday, event, closure, txn, ticket, items, sales) ==
    [i \in 1..Len(dates) |->
        [ds |-> dates[i],
         is_weekend |-> IF IsWeekend(dates[i]) THEN 1 ELSE 0,
         is_payday |-> IF IsPayday(dates[i]) THEN 1 ELSE 0,
         is_day_before_holiday |->
             IF dates[i] + 1 \in holiday_dates THEN 1 ELSE 0,
         is_school_holiday |-> 0,
         is_month_start |-> 0,
         is_month_end |-> 0,
         promo_intensity |-> promo[i],
         holiday_intensity |-> holiday[i],
         event_intensity |-> event[i],
         closure_intensity |-> closure[i],
         transactions_count |-> Number(Clip(txn[i], 1 * MILLI, 500 * MILLI)),
         avg_ticket |-> Number(Clip(ticket[i], 10 * MILLI, 1000 * MILLI)),
         items_sold |-> Number(Clip(items[i], 1 * MILLI, 1000 * MILLI)),
         lag_7 |-> Number(sales),
         rolling_mean_7 |-> Number(sales),
         rolling_std_7 |-> Number(150)]]

\* the frame synthesized for the target dates from the statistics: the
\* columns are computed first, then the rows from them
SynthesizedFrame(dates, stats, event_lookup) ==
    CHOOSE future \in
        {FrameRows(dates,
                   {d \in DOMAIN event_lookup :
                       IsPositive(event_lookup[d].holiday_intensity)},
                   promo, holiday, event, closure, txn, ticket, items,
                   Product(stats.txn_ma_14, stats.ticket_median_30)) :
            promo \in {FinalIntensity([i \in 1..Len(dates) |->
                IntensityAt(event_lookup, dates[i], "promo_intensity")])},
            holiday \in {FinalIntensity([i \in 1..Len(dates) |->
                IntensityAt(event_lookup, dates[i], "holiday_intensity")])},
            event \in {FinalIntensity([i \in 1..Len(dates) |->
                IntensityAt(event_lookup, dates[i], "event_intensity")])},
            closure \in {FinalIntensity([i \in 1..Len(dates) |->
                IntensityAt(event_lookup, dates[i], "closure_intensity")])},
            txn \in {Stabilised([i \in 1..Len(dates) |->
                BaseTransactions(stats, event_lookup, dates[i])])},
            ticket \in {Stabilised([i \in 1..Len(dates) |->
                BaseTicket(stats, dates[i])])},
            items \in {Stabilised([i \in 1..Len(dates) |->
                2 * BaseTransactions(stats, event_lookup, dates[i])])}} : TRUE

\* the statistics are computed first, then the frame from them
generate_future_regressors_clean(dates, historical_df, event_lookup) ==
    CHOOSE future \in
        {SynthesizedFrame(dates, stats, event_lookup) :
            stats \in {HistoricalStatistics(historical_df)}} : TRUE

----------------------------------------------------------------------------
(* calculate_forecast_accuracy: the validation split and its synthesis *)

ACCURACY_MIN_ROWS == 30
ACCURACY_VALIDATION_DAYS == 14

MaxValidationRows == 31

\* transactions_count and avg_ticket of a day of the summary table
DayLevels == {<<0, 5>>, <<40, 80>>, <<600, 2000>>}
UsualDay == <<40, 80>>

\* a frame of the summary table, ORDER BY ds: n days from day 1 on, every
\* day usual but one
SummaryFrame(n, odd, level) ==
    [i \in 1..n |->
        [ds |-> i,
         transactions_count |-> IF i = odd THEN level[1] ELSE UsualDay[1],
         avg_ticket |-> IF i = odd THEN level[2] ELSE UsualDay[2]]]

\* the calendar, summed per date by build_event_lookup
OneEvent(d) ==
    (d :> [promo_intensity |-> Number(400),
           holiday_intensity |-> Number(900),
           event_intensity |-> Number(0),
           closure_intensity |-> Number(0)])

\* historical_df.iloc[:-validation_days] passed as the whole frame
TrainingSlice_whole(historical_df) == historical_df
\* historical_df.iloc[:-validation_days]
TrainingSlice(historical_df) ==
    SubSeq(historical_df, 1, Len(historical_df) - ACCURACY_VALIDATION_DAYS)

\* test_df["ds"] of historical_df.iloc[-validation_days:]
ValidationDates(historical_df) ==
    [i \in 1..ACCURACY_VALIDATION_DAYS |->
        historical_df[Len(historical_df) - ACCURACY_VALIDATION_DAYS + i].ds]

\* the lookup built from the calendar rows dated up to the end of train_df
ValidationLookup(calendar, train_df) ==
    [d \in {e \in DOMAIN calendar : e <= train_df[Len(train_df)].ds} |->
        calendar[d]]

\* future_validation of calculate_forecast_accuracy, or no frame when the
\* function returns 0.0 before the split
future_validation(historical_df, calendar) ==
    IF Len(historical_df) < ACCURACY_MIN_ROWS THEN <<>>
    ELSE generate_future_regressors_clean(
             ValidationDates(historical_df),
             TrainingSlice(historical_df),
             ValidationLookup(calendar, TrainingSlice(historical_df)))

\* calculate_forecast_accuracy is called on two frames
CalculateForecastAccuracy ==
    /\ calc.fn = "validation"
    /\ calc.pc = "call"
    /\ calc' = [calc EXCEPT
           !.pc = "returned",
           !.out = future_validation(calc.historical_df, calc.calendar),
           !.out_changed = future_validation(calc.changed, calc.calendar)]
    /\ UNCHANGED <<files, window, quality, sched, pred>>

\* the rows of the frame dated at or after the first validation date
HoldoutRows(n) == {i \in 1..n : i > n - ACCURACY_VALIDATION_DAYS}

\* two frames with the same dates that agree on every row dated before the
\* first validation date: one row of the holdout, or every row of it, is
\* changed
InitValidation ==
    /\ InitFiles
    /\ window = ParkedWindow
    /\ quality = ParkedQuality
    /\ sched = ParkedSched
    /\ pred = ParkedPred
    /\ \E n \in ACCURACY_MIN_ROWS - 1..MaxValidationRows :
         \E odd \in 1..n, level \in DayLevels, to \in DayLevels :
           \E rows \in {{i} : i \in HoldoutRows(n)} \cup {HoldoutRows(n)} :
             \E calendar \in {<<>>} \cup {OneEvent(d) : d \in n - 14..n - 12} :
               calc = [fn |-> "validation", pc |-> "call",
                       historical_df |-> SummaryFrame(n, odd, level),
                       changed |->
                           [i \in 1..n |->
                               IF i \in rows
                               THEN [ds |-> i,
                                     transactions_count |-> to[1],
                                     avg_ticket |-> to[2]]
                               ELSE SummaryFrame(n, odd, level)[i]],
                       calendar |-> calendar,
                       out |-> <<>>, out_changed |-> <<>>]

NextValidation == CalculateForecastAccuracy

SpecValidation == InitValidation /\ [][NextValidation]_vars

----------------------------------------------------------------------------
(* generate_future_regressors_clean on any dates, window and event lookup *)

MaxTargetDates == 4
MaxWindowRows == 8

\* the first target date: a weekday that is no payday, a payday Saturday
FirstTargetDates == {9, 27}

\* the sum of the impacts of the events of one category on one date:
\* negative, moderate, very large, or NaN from an impact that is no number
EventSums == {Number(-500), Number(700), Number(5000), NaN}
EventColumns ==
    {"promo_intensity", "holiday_intensity", "event_intensity",
     "closure_intensity"}

\* an event lookup with one date, one category of which has a sum
LookupOf(d, column, sum) ==
    (d :> [c \in EventColumns |-> IF c = column THEN sum ELSE Number(0)])

\* a window of n days that ends the day before the first target date; its
\* last day may differ from the others
WindowBefore(first, n, level, last) ==
    [i \in 1..n |->
        [ds |-> first - n - 1 + i,
         transactions_count |-> IF i = n THEN last[1] ELSE level[1],
         avg_ticket |-> IF i = n THEN last[2] ELSE level[2]]]

\* generate_future_regressors_clean is called
GenerateFutureRegressors ==
    /\ calc.fn = "synthesis"
    /\ calc.pc = "call"
    /\ calc' = [calc EXCEPT
           !.pc = "returned",
           !.out = generate_future_regressors_clean(
                       calc.dates, calc.historical_df, calc.event_lookup)]
    /\ UNCHANGED <<files, window, quality, sched, pred>>

InitSynthesis ==
    /\ InitFiles
    /\ window = ParkedWindow
    /\ quality = ParkedQuality
    /\ sched = ParkedSched
    /\ pred = ParkedPred
    /\ \E first \in FirstTargetDates, days \in 0..MaxTargetDates,
          n \in 0..MaxWindowRows, level \in DayLevels, last \in DayLevels :
         \E event_lookup \in
                {<<>>} \cup {LookupOf(d, column, sum) :
                                d \in {first, first + 1},
                                column \in EventColumns,
                                sum \in EventSums} :
           calc = [fn |-> "synthesis", pc |-> "call",
                   dates |-> [i \in 1..days |-> first + i - 1],
                   historical_df |-> WindowBefore(first, n, level, last),
                   event_lookup |-> event_lookup,
                   out |-> <<>>]

NextSynthesis == GenerateFutureRegressors

SpecSynthesis == InitSynthesis /\ [][NextSynthesis]_vars

\* a number within [lower, upper]
InRange(cell, lower, upper) ==
    cell # NaN /\ lower <= cell.v /\ cell.v <= upper

\* C20: every row of the synthesized frame has transactions_count in
\* [1, 500], avg_ticket in [10, 1000], each of the four event intensities in
\* [0, 2], every is_* flag in {0, 1}, and no NaN in any regressor column.
C20_RegressorsWithinRanges ==
    (calc.fn = "synthesis" /\ calc.pc = "returned")
        => \A i \in 1..Len(calc.out) :
             /\ InRange(calc.out[i].transactions_count,
                        1 * MILLI, 500 * MILLI)
             /\ InRange(calc.out[i].avg_ticket, 10 * MILLI, 1000 * MILLI)
             /\ \A c \in EventColumns :
                  InRange(calc.out[i][c], 0, 2 * MILLI)
             /\ \A flag \in {"is_weekend", "is_payday",
                             "is_day_before_holiday", "is_school_holiday",
                             "is_month_start", "is_month_end"} :
                  calc.out[i][flag] \in {0, 1}
             /\ \A c \in {"items_sold", "lag_7", "rolling_mean_7",
                          "rolling_std_7"} :
                  calc.out[i][c] # NaN

\* a frame was synthesized from a window of busy days and an event lookup
\* with a sum that is out of range or NaN on a target date, and a count was
\* cut at 500
C20_Witness ==
    /\ calc.fn = "synthesis"
    /\ calc.pc = "returned"
    /\ Len(calc.historical_df) >= 7
    /\ \E i \in 1..Len(calc.out) :
         /\ calc.out[i].transactions_count = Number(500 * MILLI)
         /\ calc.out[i].ds \in DOMAIN calc.event_lookup
         /\ \E c \in EventColumns :
              ~InRange(calc.event_lookup[calc.out[i].ds][c], 0, 2 * MILLI)

----------------------------------------------------------------------------
(* load_calendar_events_df, normalize_request_events, build_event_lookup *)

MaxStoreEvents == 2
MaxRequestEvents == 1

EventTypes == {"promotion", "holiday", "event", "store-closed", "other"}
EventDates == {1, 2}
\* an impact weight in thousandths, or NoWeight for an event without one
\* (NULL in the store, None in the request)
NoWeight == [kind |-> "None", v |-> 0]
EventWeights == {NoWeight, Number(250)}

DEFAULT_EVENT_IMPACT ==
    [type \in EventTypes |->
        CASE type = "promotion" -> 400
          [] type = "holiday" -> 900
          [] type = "event" -> 500
          [] type = "store-closed" -> 1000
          [] OTHER -> 300]

\* the intensity column an event type adds to, "none" for any other type
IntensityColumn(type) ==
    CASE type = "promotion" -> "promo_intensity"
      [] type = "holiday" -> "holiday_intensity"
      [] type = "event" -> "event_intensity"
      [] type = "store-closed" -> "closure_intensity"
      [] OTHER -> "none"

EventRows == [date : EventDates, type : EventTypes, impact_weight : EventWeights]

EventLists(n) == UNION {[1..k -> EventRows] : k \in 0..n}

\* df["impact_weight"].fillna(0.0) on the rows read from calendar_events
load_calendar_events_df(rows) ==
    [i \in 1..Len(rows) |->
        [rows[i] EXCEPT !.impact_weight =
            IF rows[i].impact_weight = NoWeight THEN Number(0)
            ELSE rows[i].impact_weight]]

\* the dicts made of the events of the request
normalize_request_events(events) ==
    [i \in 1..Len(events) |->
        [events[i] EXCEPT !.impact_weight =
            IF events[i].impact_weight = NoWeight
            THEN Number(DEFAULT_EVENT_IMPACT[events[i].type])
            ELSE events[i].impact_weight]]

\* ingest_event: the impact one ingested row adds
IngestedImpact(row) ==
    IF row.impact_weight # NoWeight THEN row.impact_weight.v
    ELSE DEFAULT_EVENT_IMPACT[row.type]

RECURSIVE IngestedSum(_, _, _, _)
\* the sum ingest_event leaves in one column on one date after the first n
\* rows
IngestedSum(rows, n, d, column) ==
    IF n = 0 THEN 0
    ELSE (IF rows[n].date = d /\ IntensityColumn(rows[n].type) = column
          THEN IngestedImpact(rows[n]) ELSE 0)
             + IngestedSum(rows, n - 1, d, column)

\* the lookup after the rows of the store and then those of the request;
\* every ingested date has an entry
build_event_lookup(db_events_df, request_event_dicts) ==
    [d \in {db_events_df[i].date : i \in 1..Len(db_events_df)}
             \cup {request_event_dicts[i].date :
                      i \in 1..Len(request_event_dicts)} |->
        [c \in EventColumns |->
            IngestedSum(db_events_df, Len(db_events_df), d, c)
                + IngestedSum(request_event_dicts,
                              Len(request_event_dicts), d, c)]]

LoadCalendarEvents ==
    /\ calc.fn = "events"
    /\ calc.pc = "load"
    /\ calc' = [calc EXCEPT !.pc = "normalize",
                   !.db_events_df = load_calendar_events_df(calc.stored)]
    /\ UNCHANGED <<files, window, quality, sched, pred>>

NormalizeRequestEvents ==
    /\ calc.fn = "events"
    /\ calc.pc = "normalize"
    /\ calc' = [calc EXCEPT !.pc = "build",
                   !.request_event_dicts =
                       normalize_request_events(calc.requested)]
    /\ UNCHANGED <<files, window, quality, sched, pred>>

BuildEventLookup ==
    /\ calc.fn = "events"
    /\ calc.pc = "build"
    /\ calc' = [calc EXCEPT !.pc = "built",
                   !.event_lookup =
                       build_event_lookup(calc.db_events_df,
                                          calc.request_event_dicts)]
    /\ UNCHANGED <<files, window, quality, sched, pred>>

InitEvents ==
    /\ InitFiles
    /\ window = ParkedWindow
    /\ quality = ParkedQuality
    /\ sched = ParkedSched
    /\ pred = ParkedPred
    /\ \E stored \in EventLists(MaxStoreEvents),
          requested \in EventLists(MaxRequestEvents) :
         calc = [fn |-> "events", pc |-> "load",
                 stored |-> stored, requested |-> requested,
                 db_events_df |-> <<>>, request_event_dicts |-> <<>>,
                 event_lookup |-> <<>>]

NextEvents ==
    \/ LoadCalendarEvents
    \/ NormalizeRequestEvents
    \/ BuildEventLookup

SpecEvents == InitEvents /\ [][NextEvents]_vars

RECURSIVE ClaimedIntensity(_, _, _, _)
\* the sum of the weights of the first n events on one date in one column,
\* an event without a weight counting its category's baseline
ClaimedIntensity(events, n, d, column) ==
    IF n = 0 THEN 0
    ELSE (IF events[n].date = d /\ IntensityColumn(events[n].type) = column
          THEN (IF events[n].impact_weight = NoWeight
                THEN DEFAULT_EVENT_IMPACT[events[n].type]
                ELSE events[n].impact_weight.v)
          ELSE 0)
             + ClaimedIntensity(events, n - 1, d, column)

\* C21: the intensity of a category on a date is the sum of the weights of
\* that date's events of the category, from the calendar store and from the
\* request, an event without a weight counting its category's baseline.
C21_IntensityIsSumOfWeights ==
    (calc.fn = "events" /\ calc.pc = "built")
        => \A d \in DOMAIN calc.event_lookup, c \in EventColumns :
             calc.event_lookup[d][c]
                 = ClaimedIntensity(calc.stored, Len(calc.stored), d, c)
                     + ClaimedIntensity(calc.requested,
                                        Len(calc.requested), d, c)

----------------------------------------------------------------------------
(* validate_future_dataframe and its use in get_prediction *)

MaxFutureRows == 3
MaxFutureDate == 4

PosInf == [kind |-> "inf", v |-> 1]
NegInf == [kind |-> "inf", v |-> -1]

\* a row of the future frame: its date and one regressor
FutureRows == [ds : 1..MaxFutureDate, regressor : {Number(1), NaN, PosInf}]

\* the errors of a frame whose gap check needs more than two rows
validate_future_dataframe_three_rows(future_df) ==
    LET dates == {future_df[i].ds : i \in 1..Len(future_df)}
        first == CHOOSE d \in dates : \A e \in dates : d <= e
        last == CHOOSE d \in dates : \A e \in dates : e <= d
    IN (IF Cardinality(dates) < Len(future_df)
        THEN {"DUPLICATE DATES"} ELSE {})
       \cup (IF Len(future_df) > 2 /\ (first..last) \ dates # {}
             THEN {"MISSING DATES"} ELSE {})
       \cup (IF \E i \in 1..Len(future_df) : future_df[i].regressor = NaN
             THEN {"NaN VALUES"} ELSE {})
       \cup (IF \E i \in 1..Len(future_df) :
                   future_df[i].regressor \in {PosInf, NegInf}
             THEN {"INF VALUES"} ELSE {})
\* the errors validate_future_dataframe returns; the frame is valid when
\* there is none
validate_future_dataframe(future_df) ==
    LET dates == {future_df[i].ds : i \in 1..Len(future_df)}
        first == CHOOSE d \in dates : \A e \in dates : d <= e
        last == CHOOSE d \in dates : \A e \in dates : e <= d
    IN (IF Cardinality(dates) < Len(future_df)
        THEN {"DUPLICATE DATES"} ELSE {})
       \cup (IF Len(future_df) > 1 /\ (first..last) \ dates # {}
             THEN {"MISSING DATES"} ELSE {})
       \cup (IF \E i \in 1..Len(future_df) : future_df[i].regressor = NaN
             THEN {"NaN VALUES"} ELSE {})
       \cup (IF \E i \in 1..Len(future_df) :
                   future_df[i].regressor \in {PosInf, NegInf}
             THEN {"INF VALUES"} ELSE {})

\* get_prediction validates the future frame
ValidateFutureDataframe ==
    /\ calc.fn = "future"
    /\ calc.pc = "validate"
    /\ calc' = [calc EXCEPT
           !.pc = "validated",
           !.validation_errors = validate_future_dataframe(calc.future),
           !.is_valid = (validate_future_dataframe(calc.future) = {})]
    /\ UNCHANGED <<files, window, quality, sched, pred>>

\* get_prediction returns the error of an invalid frame
RejectFuture ==
    /\ calc.fn = "future"
    /\ calc.pc = "validated"
    /\ ~calc.is_valid
    /\ calc' = [calc EXCEPT !.pc = "returned", !.status = "error",
                            !.message = calc.validation_errors]
    /\ UNCHANGED <<files, window, quality, sched, pred>>

\* get_prediction goes on to model.predict
PredictFuture ==
    /\ calc.fn = "future"
    /\ calc.pc = "validated"
    /\ calc.is_valid
    /\ calc' = [calc EXCEPT !.pc = "predicted",
                            !.predict_calls = calc.predict_calls + 1]
    /\ UNCHANGED <<files, window, quality, sched, pred>>

InitFuture ==
    /\ InitFiles
    /\ window = ParkedWindow
    /\ quality = ParkedQuality
    /\ sched = ParkedSched
    /\ pred = ParkedPred
    /\ \E n \in 1..MaxFutureRows :
         \E future \in [1..n -> FutureRows] :
           calc = [fn |-> "future", pc |-> "validate", future |-> future,
                   is_valid |-> TRUE, validation_errors |-> {},
                   status |-> "none", message |-> {}, predict_calls |-> 0]

NextFuture ==
    \/ ValidateFutureDataframe
    \/ RejectFuture
    \/ PredictFuture

SpecFuture == InitFuture /\ [][NextFuture]_vars

\* the violations of a frame, as the contract names them
HasDuplicateDate(f) ==
    \E i \in 1..Len(f), j \in 1..Len(f) : i # j /\ f[i].ds = f[j].ds
HasDateGap(f) ==
    \E i \in 1..Len(f), j \in 1..Len(f) :
        \E d \in f[i].ds + 1..f[j].ds - 1 :
            \A k \in 1..Len(f) : f[k].ds # d
HasNaNValue(f) == \E i \in 1..Len(f) : f[i].regressor = NaN
HasInfValue(f) == \E i \in 1..Len(f) : f[i].regressor.kind = "inf"

----------------------------------------------------------------------------
(* validate_forecast_results and STEP 1 of get_prediction; sales are in
   hundredths *)

CENT == 100
MaxForecastRows == 3
HistoryRows == 31

\* <<mean, spread>> of the sales history: the days alternate between
\* mean + spread and mean - spread and the last day is at the mean, so the
\* sample standard deviation is the spread
HistoryShapes ==
    {<<10000, 1000>>, <<10000, 2500>>, <<10000, 4000>>, <<20, 10>>,
     <<10000, 0>>}
SalesHistory(shape) ==
    [i \in 1..HistoryRows |->
        [ds |-> i,
         y |-> IF i = HistoryRows THEN shape[1]
               ELSE IF i % 2 = 1 THEN shape[1] + shape[2]
               ELSE shape[1] - shape[2]]]

\* what the engine may return for a day
RawPredictions ==
    {Number(-500), Number(0), Number(3000), Number(10500), Number(50000),
     NaN, PosInf, NegInf}

Abs(x) == IF x < 0 THEN -x ELSE x
ISqrt(n) == CHOOSE r \in 0..5000 : r * r <= n /\ n < (r + 1) * (r + 1)

RECURSIVE SumSquares(_, _, _)
\* the sum of (y - mean) ** 2 over the first n rows
SumSquares(h, mean, n) ==
    IF n = 0 THEN 0
    ELSE (h[n].y - mean) * (h[n].y - mean) + SumSquares(h, mean, n - 1)

\* historical_df['y'].mean(), .std(), .min(), .max()
SeriesMean(h, rows) == SumAt(h, "y", rows, Len(h)) \div Cardinality(rows)
SeriesStd(h) == ISqrt(SumSquares(h, SeriesMean(h, DOMAIN h), Len(h)) \div (Len(h) - 1))
SeriesMin(h) == CHOOSE v \in {h[i].y : i \in DOMAIN h} : \A i \in DOMAIN h : v <= h[i].y
SeriesMax(h) == CHOOSE v \in {h[i].y : i \in DOMAIN h} : \A i \in DOMAIN h : h[i].y <= v

\* z_scores > threshold_spike; NaN compares false
IsSpike(cell, hist_mean, hist_std) ==
    \/ cell.kind = "inf"
    \/ cell.kind = "number" /\ Abs(cell.v - hist_mean) > 3 * hist_std

\* np.clip of one value
ClipValue(cell, lower, upper) ==
    IF cell.kind = "number" THEN Number(Clip(cell.v, lower, upper))
    ELSE IF cell = PosInf THEN Number(upper)
    ELSE IF cell = NegInf THEN Number(lower)
    ELSE cell

\* Series.clip(lower=...)
ClipLower(cell, lower) ==
    IF cell.kind = "number" THEN Number(Max(cell.v, lower))
    ELSE IF cell = NegInf THEN Number(lower)
    ELSE cell

\* yhat <= 0
IsNotPositive(cell) ==
    cell = NegInf \/ (cell.kind = "number" /\ cell.v <= 0)

RECURSIVE SumCells(_, _)
SumCells(cells, n) ==
    IF n = 0 THEN 0 ELSE cells[n].v + SumCells(cells, n - 1)

\* validate_forecast_results: <<warnings, corrected yhat>>. yhat is
\* forecast['yhat'].values, taken before the corrections; shared tells
\* whether that array shares its buffer with the frame, so that it sees the
\* corrected spikes. The flatten detection changes no value and needs more
\* than 7 rows.
validate_forecast_results(yhat, historical_df, shared) ==
    LET hist_mean == SeriesMean(historical_df, DOMAIN historical_df)
        hist_std == SeriesStd(historical_df)
        hist_max == SeriesMax(historical_df)
        hist_min == SeriesMin(historical_df)
        rows == DOMAIN yhat
        spikes == IF hist_std > 0
                  THEN {i \in rows : IsSpike(yhat[i], hist_mean, hist_std)}
                  ELSE {}
        max_reasonable == hist_mean + 3 * hist_std
        min_reasonable == Max(0, hist_mean - 3 * hist_std)
        despiked == [i \in rows |->
                        IF i \in spikes
                        THEN ClipValue(yhat[i], min_reasonable, max_reasonable)
                        ELSE yhat[i]]
        seen == IF shared THEN despiked ELSE yhat
        zero_count == Cardinality({i \in rows : IsNotPositive(seen[i])})
        raised == IF zero_count > 0
                  THEN [i \in rows |->
                          ClipLower(despiked[i], Max(CENT, hist_min \div 2))]
                  ELSE despiked
        nan_count == Cardinality({i \in rows : seen[i] = NaN})
        inf_count == Cardinality({i \in rows : seen[i].kind = "inf"})
        filled == IF nan_count > 0 \/ inf_count > 0
                  THEN [i \in rows |->
                          IF raised[i].kind = "number" THEN raised[i]
                          ELSE Number(hist_mean)]
                  ELSE raised
        total == SumCells(filled, Len(filled))
    IN  <<(IF spikes # {} THEN {"SPIKE DETECTED"} ELSE {})
            \cup (IF zero_count > 0 THEN {"ZERO/NEGATIVE"} ELSE {})
            \cup (IF nan_count > 0 \/ inf_count > 0 THEN {"NaN/Inf"} ELSE {})
            \cup (IF total > 3 * hist_max * Len(yhat)
                     \/ (10 * total < 3 * hist_min * Len(yhat) /\ hist_min > 0)
                  THEN {"RANGE WARNING"} ELSE {}),
          filled>>

\* weekday_means[wd]
WeekdayMean(historical_df, wd) ==
    IF RowsOn(historical_df, wd) # {}
    THEN SeriesMean(historical_df, RowsOn(historical_df, wd))
    ELSE SeriesMean(historical_df, TailRows(historical_df, 30))

\* yhat <= 0 or np.isnan(yhat) or np.isinf(yhat)
IsProblematic(cell) == cell.kind # "number" \/ cell.v <= 0

\* STEP 1 of get_prediction: the weekday average for a problematic value
FixedValues(yhat, dates, historical_df) ==
    [i \in DOMAIN yhat |->
        IF IsProblematic(yhat[i])
        THEN Number(WeekdayMean(historical_df, Weekday(dates[i])))
        ELSE yhat[i]]

\* get_prediction validates the engine's forecast
ValidateForecastResults ==
    /\ calc.fn = "forecast"
    /\ calc.pc = "validate"
    /\ \E out \in {validate_forecast_results(calc.raw, calc.historical_df, calc.shared)} :
         calc' = [calc EXCEPT !.pc = "validated",
                              !.forecast_warnings = out[1],
                              !.yhat = out[2]]
    /\ UNCHANGED <<files, window, quality, sched, pred>>

\* get_prediction fixes the problematic values
FixProblematicValues ==
    /\ calc.fn = "forecast"
    /\ calc.pc = "validated"
    /\ calc' = [calc EXCEPT
           !.pc = "fixed",
           !.yhat = FixedValues(calc.yhat, calc.dates, calc.historical_df)]
    /\ UNCHANGED <<files, window, quality, sched, pred>>

InitForecast ==
    /\ InitFiles
    /\ window = ParkedWindow
    /\ quality = ParkedQuality
    /\ sched = ParkedSched
    /\ pred = ParkedPred
    /\ \E shape \in HistoryShapes, n \in 1..MaxForecastRows, shared \in BOOLEAN :
         \E raw \in [1..n -> RawPredictions] :
           calc = [fn |-> "forecast", pc |-> "validate",
                   historical_df |-> SalesHistory(shape),
                   dates |-> [i \in 1..n |-> HistoryRows + i],
                   raw |-> raw, yhat |-> raw, shared |-> shared,
                   forecast_warnings |-> {}]

NextForecast ==
    \/ ValidateForecastResults
    \/ FixProblematicValues

SpecForecast == InitForecast /\ [][NextForecast]_vars

\* C23: with a historical standard deviation above zero, every predicted
\* value whose z-score exceeds 3.0 in absolute value lies, in the corrected
\* frame, within [mean - 3 std, mean + 3 std], and the warning list is not
\* empty.
C23_SpikesAreClipped ==
    (calc.fn = "forecast" /\ calc.pc = "validated"
       /\ SeriesStd(calc.historical_df) > 0)
        => LET mean == SeriesMean(calc.historical_df, DOMAIN calc.historical_df)
               std == SeriesStd(calc.historical_df)
           IN  \A i \in DOMAIN calc.raw :
                   IsSpike(calc.raw[i], mean, std)
                       => /\ calc.yhat[i].kind = "number"
                          /\ calc.yhat[i].v >= mean - 3 * std
                          /\ calc.yhat[i].v <= mean + 3 * std
                          /\ calc.forecast_warnings # {}

\* C24: every raw prediction that is <= 0, NaN or Inf holds, after the
\* corrections and before the final clipping, the historical average of its
\* weekday.
C24_ProblematicBecomesWeekdayAverage ==
    (calc.fn = "forecast" /\ calc.pc = "fixed")
        => \A i \in DOMAIN calc.raw :
               IsProblematic(calc.raw[i])
                   => calc.yhat[i] = Number(WeekdayMean(calc.historical_df, Weekday(calc.dates[i])))

----------------------------------------------------------------------------
(* STEP 4 and STEP 5 of get_prediction and the rows of its response; values
   are in ten-thousandths *)

MYRIAD == 10000
MaxLargeEstimates == 1

\* <<historical_mean, historical_std>> of the last 30 days
IntervalStatistics == {<<0, 0>>, <<30000, 10000>>, <<1000000, 100000>>}
\* yhat after STEP 3, yhat_lower and yhat_upper of the engine
PointEstimates == {0, 5000, 10140, 1000100} \cup {5000000 * l : l \in 1..MaxLargeEstimates}
LowerBounds ==
    {Number(-10000), Number(0), Number(9800), Number(990000), NaN, PosInf, NegInf}
UpperBounds ==
    {Number(0), Number(10300), Number(1200000), Number(9000000), NaN, PosInf, NegInf}

\* a < b on floats; NaN compares false
Less(a, b) ==
    /\ a # NaN
    /\ b # NaN
    /\ a # b
    /\ \/ a = NegInf
       \/ b = PosInf
       \/ a.kind = "number" /\ b.kind = "number" /\ a.v < b.v
\* the builtins min(a, b) and max(a, b)
PyMin(a, b) == IF Less(b, a) THEN b ELSE a
PyMax(a, b) == IF Less(a, b) THEN b ELSE a

\* Series.clip(lower=...) of one value
ClipAbove(cell, lower) ==
    IF cell = NaN THEN NaN ELSE IF Less(cell, lower) THEN lower ELSE cell

\* STEP 4: <<yhat, yhat_lower, yhat_upper>>
ClippedRow(row, historical_mean, historical_std) ==
    LET min_reasonable == Max(MYRIAD, (historical_mean * 3) \div 10)
        max_reasonable == historical_mean + 3 * historical_std
        yhat == Min(Max(row[1], min_reasonable), max_reasonable)
    IN  <<yhat, ClipAbove(row[2], Number(0)), ClipAbove(row[3], Number(yhat))>>

\* STEP 5 without the floor of 50% of yhat
ReasonableInterval_without_floor(row) ==
    LET yhat == row[1]
        new_lower == PyMin(row[2], Number((yhat * 95) \div 100))
        new_upper == PyMin(Number((yhat * 15) \div 10),
                           PyMax(row[3], Number((yhat * 105) \div 100)))
    IN  <<yhat, PyMax(Number(0), new_lower), new_upper>>
\* STEP 5: <<yhat, yhat_lower, yhat_upper>>
ReasonableInterval(row) ==
    LET yhat == row[1]
        new_lower == PyMax(Number(yhat \div 2),
                           PyMin(row[2], Number((yhat * 95) \div 100)))
        new_upper == PyMin(Number((yhat * 15) \div 10),
                           PyMax(row[3], Number((yhat * 105) \div 100)))
    IN  <<yhat, PyMax(Number(0), new_lower), new_upper>>

\* round(max(0, float(x)), 2)
Served(cell) ==
    IF cell = PosInf THEN cell
    ELSE RoundTo(PyMax(Number(0), cell).v, MYRIAD \div 100)

ClipToReasonableBounds ==
    /\ calc.fn = "interval"
    /\ calc.pc = "step4"
    /\ calc' = [calc EXCEPT
           !.pc = "step5",
           !.row = ClippedRow(calc.row, calc.historical_mean, calc.historical_std)]
    /\ UNCHANGED <<files, window, quality, sched, pred>>

EnsureReasonableInterval ==
    /\ calc.fn = "interval"
    /\ calc.pc = "step5"
    /\ calc' = [calc EXCEPT !.pc = "respond",
                            !.row = ReasonableInterval(calc.row)]
    /\ UNCHANGED <<files, window, quality, sched, pred>>

ServeForecastRow ==
    /\ calc.fn = "interval"
    /\ calc.pc = "respond"
    /\ calc' = [calc EXCEPT
           !.pc = "served",
           !.chart = [predicted |-> Served(Number(calc.row[1])),
                      lower |-> Served(calc.row[2]),
                      upper |-> Served(calc.row[3])]]
    /\ UNCHANGED <<files, window, quality, sched, pred>>

InitInterval ==
    /\ InitFiles
    /\ window = ParkedWindow
    /\ quality = ParkedQuality
    /\ sched = ParkedSched
    /\ pred = ParkedPred
    /\ \E stats \in IntervalStatistics, yhat \in PointEstimates :
         \E yhat_lower \in LowerBounds, yhat_upper \in UpperBounds :
           calc = [fn |-> "interval", pc |-> "step4",
                   historical_mean |-> stats[1], historical_std |-> stats[2],
                   row |-> <<yhat, yhat_lower, yhat_upper>>,
                   chart |-> [predicted |-> 0, lower |-> 0, upper |-> 0]]

NextInterval ==
    \/ ClipToReasonableBounds
    \/ EnsureReasonableInterval
    \/ ServeForecastRow

SpecInterval == InitInterval /\ [][NextInterval]_vars

----------------------------------------------------------------------------
(* the inverse of the log transform in get_prediction and
   predict_category *)

USE_LOG_TRANSFORM == TRUE
MaxLogPrediction == 25

\* yhat of the engine, on the scale the artifact was fit on
LogPredictions == {-15, -10, 0, 3, 20, MaxLogPrediction}

\* the metadata file next to the artifact: written with it, without the
\* log_transform key, not valid JSON, or absent
InverseMetaFiles == {"complete", "no_flag", "unreadable", "missing"}

\* the artifacts training can have written: a store model is always fit on
\* log1p(y); a category model is when USE_LOG_TRANSFORM and min(y) > 0
TrainedArtifacts ==
    {[owner |-> "store", log1p |-> USE_LOG_TRANSFORM]}
      \cup {[owner |-> "category", log1p |-> USE_LOG_TRANSFORM /\ positive] :
                positive \in BOOLEAN}

\* load_model_with_meta and ModelTrainer.load_model: the metadata of a store
\* model
load_model_with_meta(artifact, meta_file) ==
    IF meta_file = "complete"
    THEN [log_transform |-> artifact.log1p]
    ELSE [log_transform |-> TRUE]

\* CategoryTrainer._load_model: json.load raises, or the metadata of a
\* category model as predict_category reads it
CategoryLoadRaises(meta_file) == meta_file = "unreadable"
LoadCategoryMetadata(artifact, meta_file) ==
    IF meta_file = "complete" THEN [log_transform |-> artifact.log1p]
    ELSE [log_transform |-> FALSE]

\* what a prediction does to yhat
Expm1(x) == [op |-> "expm1", of |-> x]
Unchanged(x) == [op |-> "none", of |-> x]

\* get_prediction: np.expm1(yhat.clip(-10, 20)) when log_transform
StoreInverse(yhat, meta) ==
    IF meta.log_transform THEN Expm1(Clip(yhat, -10, 20)) ELSE Unchanged(yhat)

\* predict_category: np.expm1(yhat) when log_transform
CategoryInverse(yhat, metadata) ==
    IF metadata.log_transform THEN Expm1(yhat) ELSE Unchanged(yhat)

LoadStoreModel ==
    /\ calc.fn = "inverse"
    /\ calc.pc = "load"
    /\ calc.artifact.owner = "store"
    /\ calc' = [calc EXCEPT
           !.pc = "loaded",
           !.metadata = load_model_with_meta(calc.artifact, calc.meta_file)]
    /\ UNCHANGED <<files, window, quality, sched, pred>>

LoadCategoryModel ==
    /\ calc.fn = "inverse"
    /\ calc.pc = "load"
    /\ calc.artifact.owner = "category"
    /\ ~CategoryLoadRaises(calc.meta_file)
    /\ calc' = [calc EXCEPT
           !.pc = "loaded",
           !.metadata = LoadCategoryMetadata(calc.artifact, calc.meta_file)]
    /\ UNCHANGED <<files, window, quality, sched, pred>>

LoadCategoryModelRaises ==
    /\ calc.fn = "inverse"
    /\ calc.pc = "load"
    /\ calc.artifact.owner = "category"
    /\ CategoryLoadRaises(calc.meta_file)
    /\ calc' = [calc EXCEPT !.pc = "raised"]
    /\ UNCHANGED <<files, window, quality, sched, pred>>

PredictStore ==
    /\ calc.fn = "inverse"
    /\ calc.pc = "loaded"
    /\ calc.artifact.owner = "store"
    /\ calc' = [calc EXCEPT !.pc = "predicted",
                            !.yhat = StoreInverse(calc.raw, calc.metadata)]
    /\ UNCHANGED <<files, window, quality, sched, pred>>

PredictCategory ==
    /\ calc.fn = "inverse"
    /\ calc.pc = "loaded"
    /\ calc.artifact.owner = "category"
    /\ calc' = [calc EXCEPT !.pc = "predicted",
                            !.yhat = CategoryInverse(calc.raw, calc.metadata)]
    /\ UNCHANGED <<files, window, quality, sched, pred>>

InitInverse ==
    /\ InitFiles
    /\ window = ParkedWindow
    /\ quality = ParkedQuality
    /\ sched = ParkedSched
    /\ pred = ParkedPred
    /\ \E artifact \in TrainedArtifacts, meta_file \in InverseMetaFiles :
         \E raw \in LogPredictions :
           calc = [fn |-> "inverse", pc |-> "load", artifact |-> artifact,
                   meta_file |-> meta_file, raw |-> raw,
                   metadata |-> [log_transform |-> FALSE],
                   yhat |-> Unchanged(raw)]

NextInverse ==
    \/ LoadStoreModel
    \/ LoadCategoryModel
    \/ LoadCategoryModelRaises
    \/ PredictStore
    \/ PredictCategory

SpecInverse == InitInverse /\ [][NextInverse]_vars

\* C26: for every model that load returns, a store model or a category
\* model and whatever the state of its metadata file, the prediction is
\* expm1 of yhat clipped to [-10, 20] when the artifact was fit on log1p
\* targets, and yhat unchanged when it was not.
C26_InverseMatchesFit ==
    (calc.fn = "inverse" /\ calc.pc = "predicted")
        => calc.yhat = IF calc.artifact.log1p
                       THEN Expm1(Clip(calc.raw, -10, 20))
                       ELSE Unchanged(calc.raw)

----------------------------------------------------------------------------
(* save_model over an existing model *)

\* thread p truncates the current artifact of its store in this step, and
\* the store holds the complete pair of an earlier run
Overwrites(p) ==
    /\ proc[p].pc = "open_model"
    /\ proc'[p].pc = "write_model"
    /\ modelFile[proc[p].store].kind = "data"
    /\ metaFile[proc[p].store].kind = "data"
    /\ metaFile[proc[p].store].run = modelFile[proc[p].store].run

\* the current pair of store s is in the history directory under one
\* timestamp
ArchivedAsPair(s) ==
    \E t \in 0..now :
        /\ HistoryFile(s, t, "", modelFile[s]) \in history
        /\ HistoryFile(s, t, "_meta", metaFile[s]) \in history

\* C27: when a training run writes over an existing current model, the
\* artifact and the metadata it replaces are in the history directory as one
\* pair before the new pair is written, so no previous version is lost by
\* being overwritten unarchived.
C27_PreviousVersionArchived ==
    [][\A p \in Procs : Overwrites(p) => ArchivedAsPair(proc[p].store)]_vars

----------------------------------------------------------------------------
(* should_retrain and train_model on every metadata load_model can return *)

\* metadata of another version of the service: a dict with any of the keys
\* saved_at, accuracy, end_date
OtherVersionMeta(keys, t) ==
    [kind |-> "data", run |-> 1, saved_at |-> IF "saved_at" \in keys THEN t ELSE 0,
     accuracy |-> IF "accuracy" \in keys THEN 900 ELSE 0,
     end_date |-> IF "end_date" \in keys THEN t ELSE 0,
     fields |-> keys]

PersistedMetaFiles ==
    DecideMetaFiles
      \cup {OtherVersionMeta(keys, t) :
               keys \in SUBSET {"saved_at", "accuracy", "end_date"},
               t \in DecideSavedAts}

InitPersisted ==
    /\ now \in DecideNows
    /\ \E mf \in {NoFile, TornFile, ArtifactOf(1)}, mt \in PersistedMetaFiles :
         /\ mf = NoFile => mt = NoFile
         /\ modelFile = [s \in Stores |-> IF s = "1" THEN mf ELSE NoFile]
         /\ metaFile = [s \in Stores |-> IF s = "1" THEN mt ELSE NoFile]
    /\ history = {}
    /\ proc = [p \in Procs |-> IdleProc]
    /\ nextRun = 1
    /\ faults = 0
    /\ InitAside

NextPersisted ==
    \/ \E e \in {"train", "check"}, f \in BOOLEAN : Begin("req", "1", e, f)
    \/ ReadModel("req")
    \/ ReadMeta("req")
    \/ Fetch("req")
    \/ Fit("req", MaxRunsDecide, {900})
    \/ SaveBegin("req")
    \/ ArchiveMeta("req")
    \/ Cleanup("req")
    \/ OpenModel("req")
    \/ WriteModel("req")
    \/ OpenMeta("req")
    \/ WriteMeta("req")

SpecPersisted == InitPersisted /\ [][NextPersisted]_vars

\* C28: should_retrain returns a decision with its reason and never raises,
\* whatever load_model returns: complete metadata, the default metadata of a
\* missing or unreadable file, or metadata without saved_at, accuracy or
\* end_date.
C28_ShouldRetrainNeverRaises ==
    [][\A p \in Procs :
         (FinishesLoad(p) /\ proc[p].entry # "train")
            => /\ proc'[p].retrain[1] \in {"true", "false"}
               /\ proc'[p].error = "none"]_vars

\* C29: whenever train_model(force_retrain=False) goes on to retrain,
\* should_retrain answers true on the same files; so where should_retrain
\* answers false, train_model returns the existing pair.
C29_TrainSkipsWhereNoRetrainNeeded ==
    [][\A p \in Procs :
         /\ (StartsRetrain(p) /\ ~proc'[p].force)
               => should_retrain(LoadModel(proc'[p].store)[1],
                                 LoadModel(proc'[p].store)[2], now)[1] = "true"
         /\ (/\ FinishesLoad(p)
             /\ proc[p].entry = "train"
             /\ ~proc[p].force
             /\ should_retrain(LoadModel(proc[p].store)[1],
                               LoadModel(proc[p].store)[2], now)[1] = "false")
               => ReturnsExistingPair(p)]_vars

\* a train call has returned the existing pair where should_retrain answers
\* false
C29_Witness ==
    /\ proc["req"].pc = "idle"
    /\ proc["req"].entry = "train"
    /\ proc["req"].outcome = "success"
    /\ proc["req"].model = LoadArtifact(modelFile["1"])
    /\ proc["req"].model # NoneValue
    /\ should_retrain(LoadModel("1")[1], LoadModel("1")[2], now)[1] = "false"

----------------------------------------------------------------------------
(* save_model, _archive_model and _cleanup_old_history by file name *)

MaxIsolationRuns == 8

\* store ids and timestamps as sequences of character codes: "1", "1_1"
\* and "2"; strftime("%Y%m%d_%H%M%S") as the "2" of the year and one digit
\* that grows with the clock
UNDERSCORE == 95
DIGIT_ZERO == 48
IsolationStores ==
    {<<DIGIT_ZERO + 1>>, <<DIGIT_ZERO + 1, UNDERSCORE, DIGIT_ZERO + 1>>,
     <<DIGIT_ZERO + 2>>}
Timestamp(clock) == <<DIGIT_ZERO + 2, DIGIT_ZERO + clock>>

\* the part of a history file's name between "store_" and
\* "_meta.json" / ".json"
ArchiveStem(f) == f.store \o <<UNDERSCORE>> \o f.ts

IsPrefix(a, b) == Len(a) <= Len(b) /\ SubSeq(b, 1, Len(a)) = a

\* a < b as Python compares strings
StringLess(a, b) ==
    \/ a # b /\ IsPrefix(a, b)
    \/ \E i \in 1..Min(Len(a), Len(b)) :
          /\ SubSeq(a, 1, i - 1) = SubSeq(b, 1, i - 1)
          /\ a[i] < b[i]

\* glob.glob(f"{history_dir}/store_{store_id}_*_meta.json")
GlobOfStore(h, store_id) ==
    {f \in h : f.suffix = "_meta"
               /\ IsPrefix(store_id \o <<UNDERSCORE>>, ArchiveStem(f))}

\* history_files[KEEP_MODEL_HISTORY:] of the names sorted in reverse
OldFilesByName(h, store_id) ==
    {f \in GlobOfStore(h, store_id) :
        Cardinality({g \in GlobOfStore(h, store_id) :
                        StringLess(ArchiveStem(f), ArchiveStem(g))})
            >= KEEP_MODEL_HISTORY}

\* _cleanup_old_history: each old metadata file and the artifact of the
\* same stem are removed
CleanedByName(h, store_id) ==
    {f \in h : ~(\E old \in OldFilesByName(h, store_id) :
                    ArchiveStem(f) = ArchiveStem(old))}

\* _archive_model: the current pair is copied under the timestamp
ArchivedByName(h, store_id, version, clock) ==
    {f \in h : ArchiveStem(f) # store_id \o <<UNDERSCORE>> \o Timestamp(clock)}
      \cup {[store |-> store_id, ts |-> Timestamp(clock), suffix |-> suffix,
             version |-> version] : suffix \in {"", "_meta"}}

\* a training run of one store reaches save_model
BeginSaveModel ==
    /\ calc.fn = "isolation"
    /\ calc.pc = "idle"
    /\ calc.runs < MaxIsolationRuns
    /\ \E store_id \in IsolationStores :
         calc' = [calc EXCEPT !.pc = "archive", !.store = store_id,
                              !.runs = calc.runs + 1,
                              !.clock = calc.clock + 1]
    /\ UNCHANGED <<files, window, quality, sched, pred>>

\* save_model archives the existing pair and prunes the history
ArchiveModelByName ==
    /\ calc.fn = "isolation"
    /\ calc.pc = "archive"
    /\ calc' = [calc EXCEPT
           !.pc = "write",
           !.archive =
               IF calc.current[calc.store] = 0 THEN calc.archive
               ELSE CleanedByName(
                        ArchivedByName(calc.archive, calc.store,
                                       calc.current[calc.store], calc.clock),
                        calc.store)]
    /\ UNCHANGED <<files, window, quality, sched, pred>>

\* save_model writes the new artifact and metadata
WritePairByName ==
    /\ calc.fn = "isolation"
    /\ calc.pc = "write"
    /\ calc' = [calc EXCEPT !.pc = "idle",
                            !.current[calc.store] = calc.runs]
    /\ UNCHANGED <<files, window, quality, sched, pred>>

InitIsolation ==
    /\ InitFiles
    /\ window = ParkedWindow
    /\ quality = ParkedQuality
    /\ sched = ParkedSched
    /\ pred = ParkedPred
    /\ calc = [fn |-> "isolation", pc |-> "idle",
               store |-> <<DIGIT_ZERO + 1>>, runs |-> 0, clock |-> 0,
               current |-> [s \in IsolationStores |-> 0], archive |-> {}]

NextIsolation ==
    \/ BeginSaveModel
    \/ ArchiveModelByName
    \/ WritePairByName

SpecIsolation == InitIsolation /\ [][NextIsolation]_vars

\* C30: a training run for one store changes neither the current pair nor
\* any history file of another store.
C30_StoresAreIsolated ==
    [][calc.fn = "isolation"
         => \A other \in IsolationStores \ {calc'.store} :
               /\ calc'.current[other] = calc.current[other]
               /\ {f \in calc'.archive : f.store = other}
                     = {f \in calc.archive : f.store = other}]_vars

====
